---------------------------- MODULE Spec2Model ----------------------------
(***************************************************************************)
(* A model of the copycat core: the concept network (Slipnet, Slipnode,    *)
(* Sliplink), the group build/break bookkeeping of the workspace, and the  *)
(* strength model of workspace structures.                                 *)
(*                                                                         *)
(* Python floats are modelled as fixed-point integers: a value v of the    *)
(* program is the integer v * FP here (FP = 100, so 100.0 is 10000).       *)
(* Divisions round toward minus infinity (\div).                           *)
(***************************************************************************)
EXTENDS Integers, Sequences, FiniteSets, TLC

(***************************************************************************)
(* Bounds of the model.                                                    *)
(***************************************************************************)
\* how many letters of "abcdefghijklmnopqrstuvwxyz" the network is built over
NumLetters == 2
\* cap on number_of_updates (the code's counter is unbounded)
MaxUpdates == 51
\* how many build_descriptions / activateDescriptions calls one run makes
MaxInject == 1
\* build_descriptions / activateDescriptions calls are explored from this many
\* ticks before the unclamping tick on
InjectWindow == 1
\* len(string): the letters of the one workspace string that is modelled
StringLength == 3
\* how many groups, bonds and correspondences exist at once
MaxBuilt == 3
\* the strengths a conforming structure computes are the multiples of
\* 100/StrengthSteps in [0, 100]
StrengthSteps == 10
\* len(objectList) of the groups whose internal strength is computed
MaxLength == 5
\* len(seq) of the sequences weighted_choice chooses from
MaxChoices == 3
\* the weights of weighted_choice and weighted_average are 0..MaxWeight
MaxWeight == 2
\* how many (value, weight) pairs weighted_average is given
MaxValues == 2
\* rng.random() draws one of 0/RandomSteps .. (RandomSteps - 1)/RandomSteps
RandomSteps == 4
\* the groups add_length_description_category is called for have
\* 1..MaxObjects objects
MaxObjects == 7
\* how many rules the rule builder can propose
MaxRules == 2
\* how many calls of build_rule a run makes
MaxRuleBuilds == 4
\* how many updates of the network a run with update_everything makes
MaxTicks == 2
\* how many groups that run holds at a time
MaxGroups == 1

(***************************************************************************)
(* Numbers.                                                                *)
(***************************************************************************)
\* fixed-point scale of a float
FP == 100

Min(x, y) == IF x < y THEN x ELSE y
Max(x, y) == IF x > y THEN x ELSE y

None == "None"

(***************************************************************************)
(* Slipnet.__add_initial_nodes: the nodes, in the order of self.slipnodes. *)
(***************************************************************************)
Alphabet == <<"a", "b", "c", "d", "e", "f", "g", "h", "i", "j", "k", "l", "m",
              "n", "o", "p", "q", "r", "s", "t", "u", "v", "w", "x", "y", "z">>

letters == SubSeq(Alphabet, 1, NumLetters)
numbers == <<"1", "2", "3", "4", "5">>

Node(name, depth, length) ==
    [name |-> name, conceptual_depth |-> depth, intrinsic_link_length |-> length]

slipnodes ==
    [i \in 1..Len(letters) |-> Node(letters[i], 10, 0)]
    \o [i \in 1..Len(numbers) |-> Node(numbers[i], 30, 0)]
    \o << Node("leftmost", 40, 0), Node("rightmost", 40, 0), Node("middle", 40, 0),
          Node("single", 40, 0), Node("whole", 40, 0),
          Node("first", 60, 0), Node("last", 60, 0),
          Node("left", 40, 0), Node("right", 40, 0),
          Node("predecessor", 50, 60), Node("successor", 50, 60),
          Node("sameness", 80, 0),
          Node("predecessorGroup", 50, 0), Node("successorGroup", 50, 0),
          Node("samenessGroup", 80, 0),
          Node("identity", 90, 0), Node("opposite", 90, 80),
          Node("letter", 20, 0), Node("group", 80, 0),
          Node("letterCategory", 30, 0), Node("stringPositionCategory", 70, 0),
          Node("alphabeticPositionCategory", 80, 0), Node("directionCategory", 70, 0),
          Node("bondCategory", 80, 0), Node("groupCategory", 80, 0),
          Node("length", 60, 0), Node("objectCategory", 90, 0),
          Node("bondFacet", 90, 0) >>

NodeNames == {slipnodes[i].name : i \in 1..Len(slipnodes)}

NodeOf(n) == CHOOSE r \in {slipnodes[i] : i \in 1..Len(slipnodes)} : r.name = n

conceptual_depth == [n \in NodeNames |-> NodeOf(n).conceptual_depth]
intrinsic_link_length == [n \in NodeNames |-> NodeOf(n).intrinsic_link_length]

\* some factors are considered "very relevant" a priori
initially_clamped_slipnodes == <<"letterCategory", "stringPositionCategory">>

APriori == {initially_clamped_slipnodes[i] : i \in 1..Len(initially_clamped_slipnodes)}

(***************************************************************************)
(* Sliplink and the link constructors of Slipnet.                          *)
(***************************************************************************)
Sliplink(source, destination, label, length, kind) ==
    [source |-> source, destination |-> destination, label |-> label,
     fixed_length |-> length, kind |-> kind]

add_slip_link(source, destination, label, length) ==
    << Sliplink(source, destination, label, length, "slip") >>

add_non_slip_link(source, destination, label, length) ==
    << Sliplink(source, destination, label, length, "nonslip") >>

add_bidirectional_link(source, destination, length) ==
    add_non_slip_link(source, destination, None, length)
    \o add_non_slip_link(destination, source, None, length)

add_category_link(source, destination, length) ==
    << Sliplink(source, destination, None, length, "category") >>

\* a faulty __add_instance_link: the depth difference is taken the other way
add_instance_link_reversed(source, destination, length) ==
    add_category_link(destination, source,
                      conceptual_depth[destination] - conceptual_depth[source])
    \o << Sliplink(source, destination, None, length, "instance") >>

add_instance_link(source, destination, length) ==
    add_category_link(destination, source,
                      conceptual_depth[source] - conceptual_depth[destination])
    \o << Sliplink(source, destination, None, length, "instance") >>

add_property_link(source, destination, length) ==
    << Sliplink(source, destination, None, length, "property") >>

add_opposite_link(source, destination) ==
    add_slip_link(source, destination, "opposite", 0)
    \o add_slip_link(destination, source, "opposite", 0)

RECURSIVE Concat(_)
Concat(ss) == IF ss = << >> THEN << >> ELSE Head(ss) \o Concat(Tail(ss))

link_items_to_their_neighbors(items) ==
    Concat([i \in 1..(Len(items) - 1) |->
              add_non_slip_link(items[i], items[i + 1], "successor", 0)
              \o add_non_slip_link(items[i + 1], items[i], "predecessor", 0)])

(***************************************************************************)
(* Slipnet.__add_initial_links: the links, in the order of self.sliplinks. *)
(***************************************************************************)
sliplinks ==
    link_items_to_their_neighbors(letters)
    \o link_items_to_their_neighbors(numbers)
    \o Concat([i \in 1..Len(letters) |->
                 add_instance_link("letterCategory", letters[i], 97)])
    \o add_category_link("samenessGroup", "letterCategory", 50)
    \o Concat([i \in 1..Len(numbers) |-> add_instance_link("length", numbers[i], 100)])
    \o add_non_slip_link("predecessorGroup", "length", None, 95)
    \o add_non_slip_link("successorGroup", "length", None, 95)
    \o add_non_slip_link("samenessGroup", "length", None, 95)
    \o add_opposite_link("first", "last")
    \o add_opposite_link("leftmost", "rightmost")
    \o add_opposite_link("left", "right")
    \o add_opposite_link("successor", "predecessor")
    \o add_opposite_link("successorGroup", "predecessorGroup")
    \o add_property_link(letters[1], "first", 75)
    \o add_property_link(letters[Len(letters)], "last", 75)
    \o add_instance_link("objectCategory", "letter", 100)
    \o add_instance_link("objectCategory", "group", 100)
    \o add_instance_link("stringPositionCategory", "leftmost", 100)
    \o add_instance_link("stringPositionCategory", "rightmost", 100)
    \o add_instance_link("stringPositionCategory", "middle", 100)
    \o add_instance_link("stringPositionCategory", "single", 100)
    \o add_instance_link("stringPositionCategory", "whole", 100)
    \o add_instance_link("alphabeticPositionCategory", "first", 100)
    \o add_instance_link("alphabeticPositionCategory", "last", 100)
    \o add_instance_link("directionCategory", "left", 100)
    \o add_instance_link("directionCategory", "right", 100)
    \o add_instance_link("bondCategory", "predecessor", 100)
    \o add_instance_link("bondCategory", "successor", 100)
    \o add_instance_link("bondCategory", "sameness", 100)
    \o add_instance_link("groupCategory", "predecessorGroup", 100)
    \o add_instance_link("groupCategory", "successorGroup", 100)
    \o add_instance_link("groupCategory", "samenessGroup", 100)
    \o add_instance_link("bondFacet", "letterCategory", 100)
    \o add_instance_link("bondFacet", "length", 100)
    \o add_non_slip_link("sameness", "samenessGroup", "groupCategory", 30)
    \o add_non_slip_link("successor", "successorGroup", "groupCategory", 60)
    \o add_non_slip_link("predecessor", "predecessorGroup", "groupCategory", 60)
    \o add_non_slip_link("samenessGroup", "sameness", "bondCategory", 90)
    \o add_non_slip_link("successorGroup", "successor", "bondCategory", 90)
    \o add_non_slip_link("predecessorGroup", "predecessor", "bondCategory", 90)
    \o add_slip_link("letterCategory", "length", None, 95)
    \o add_slip_link("length", "letterCategory", None, 95)
    \o add_slip_link("letter", "group", None, 90)
    \o add_slip_link("group", "letter", None, 90)
    \o add_bidirectional_link("left", "leftmost", 90)
    \o add_bidirectional_link("right", "rightmost", 90)
    \o add_bidirectional_link("right", "leftmost", 100)
    \o add_bidirectional_link("left", "rightmost", 100)
    \o add_bidirectional_link("leftmost", "first", 100)
    \o add_bidirectional_link("rightmost", "first", 100)
    \o add_bidirectional_link("leftmost", "last", 100)
    \o add_bidirectional_link("rightmost", "last", 100)
    \o add_slip_link("single", "whole", None, 90)
    \o add_slip_link("whole", "single", None, 90)

\* node.outgoing_links, as indices into sliplinks, in construction order
outgoing_links ==
    [n \in NodeNames |->
        SelectSeq([i \in 1..Len(sliplinks) |-> i], LAMBDA i : sliplinks[i].source = n)]


(***************************************************************************)
(* State.                                                                  *)
(***************************************************************************)
VARIABLES
    \* Slipnode.activation, .buffer, .clamped, .old_activation, by node name
    activation, buffer, clamped, old_activation,
    \* Slipnet.number_of_updates
    number_of_updates,
    \* how many description activations the run has made
    injections,
    \* the operation of the concept network that produced the current state
    lastOp,
    \* Slipnode.buffer as it was when the spread loop of the last
    \* Slipnet.update ended, by node name
    spread_buffer

VARIABLES
    \* Workspace.objects, Workspace.structures, WorkspaceString.objects
    objects, structures, string_objects,
    \* WorkspaceObject.group, .descriptions, .correspondence, .leftBond,
    \* .rightBond, by object
    group, descriptions, correspondence, leftBond, rightBond

VARIABLES
    \* WorkspaceStructure.internal_strength, .external_strength,
    \* .total_strength, by structure
    internal_strength, external_strength, total_strength,
    \* Group.internalStrength, Group.externalStrength, by group
    internalStrength, externalStrength,
    \* the last method called on a workspace object or structure, the object
    \* it was called on and how it ended
    call

VARIABLES
    \* the arguments of the last call of a function of formulas.py,
    \* randomness.py, conceptMapping.py or sliplink.py, and what it returned
    args, returned

netVars == <<activation, buffer, clamped, old_activation, number_of_updates,
             injections, lastOp, spread_buffer>>

wsVars == <<objects, structures, string_objects, group, descriptions,
            correspondence, leftBond, rightBond>>

strengthVars == <<internal_strength, external_strength, total_strength,
                  internalStrength, externalStrength>>

VARIABLES
    \* WorkspaceObject.rawImportance, .relativeImportance,
    \* .intraStringUnhappiness, .interStringUnhappiness, .totalUnhappiness,
    \* .intraStringSalience, .interStringSalience, .totalSalience, by object
    rawImportance, relativeImportance, intraStringUnhappiness,
    interStringUnhappiness, totalUnhappiness, intraStringSalience,
    interStringSalience, totalSalience,
    \* WorkspaceString.intra_string_unhappiness
    intra_string_unhappiness

VARIABLES
    \* Workspace.rule
    rule,
    \* the rules build_rule was called with, in the order of the calls
    built_rules

functionVars == <<args, returned>>

valueVars == <<rawImportance, relativeImportance, intraStringUnhappiness,
               interStringUnhappiness, totalUnhappiness, intraStringSalience,
               interStringSalience, totalSalience, intra_string_unhappiness>>

ruleVars == <<rule, built_rules>>

vars == <<netVars, wsVars, strengthVars, call, functionVars, valueVars, ruleVars>>

\* Slipnode.old_activation before the first update (None)
NoFloat == -1

\* the tick at which Slipnet.update unclamps the a-priori nodes
UnclampTick == 50

(***************************************************************************)
(* Slipnode and Sliplink methods.  A method that reads or writes one       *)
(* attribute of one node is an operator on that attribute's value.         *)
(***************************************************************************)
jump_threshold == 55 * FP

RECURSIVE SumUpTo(_, _)
\* f[1] + ... + f[k]
SumUpTo(f, k) == IF k = 0 THEN 0 ELSE f[k] + SumUpTo(f, k - 1)

\* Slipnode.fully_active: activation > 100.0 - 0.00001
fully_active(a) == a * 100000 > 100 * FP * 100000 - FP

\* a faulty intrinsic_degree_of_association: the label's length is taken
\* shrunk (0.4 of it), as Slipnode.degree_of_association takes it for a fully
\* active node
intrinsic_degree_of_association_shrunk(l) ==
    IF l.fixed_length > 1 THEN 100 * FP - (l.fixed_length * FP * 4) \div 10
    ELSE IF l.label # None
    THEN 100 * FP - (intrinsic_link_length[l.label] * FP * 4) \div 10
    ELSE 0

\* Sliplink.intrinsic_degree_of_association
intrinsic_degree_of_association(l) ==
    IF l.fixed_length > 1 THEN 100 * FP - l.fixed_length * FP
    ELSE IF l.label # None THEN 100 * FP - intrinsic_link_length[l.label] * FP
    ELSE 0

\* Sliplink.spread_activation for every link in source.outgoing_links: what
\* "for link in self.outgoing_links: link.spread_activation()" adds to the
\* buffer of node n
outgoing_spread ==
    [source \in NodeNames |-> [n \in NodeNames |->
        LET out == outgoing_links[source]
        IN  SumUpTo([j \in 1..Len(out) |->
                       IF sliplinks[out[j]].destination = n
                       THEN intrinsic_degree_of_association(sliplinks[out[j]])
                       ELSE 0], Len(out))]]

\* incoming links of node n, as indices into sliplinks
incoming_links ==
    [n \in NodeNames |->
        SelectSeq([i \in 1..Len(sliplinks) |-> i],
                  LAMBDA i : sliplinks[i].destination = n)]

\* a faulty update: the buffer is left as it is
node_update_without_decay(a, b, n) == b

\* Slipnode.update: the node's buffer after the decay of activation a
node_update(a, b, n) == b - (a * (100 - conceptual_depth[n])) \div 100

\* a faulty spread: every node with any activation spreads, fully active or not
spread_activation_from_any(act, order, n) ==
    SumUpTo([i \in 1..Len(order) |->
               IF act[order[i]] > 0 THEN outgoing_spread[order[i]][n] ELSE 0],
            Len(order))

\* Slipnode.spread_activation for every node of order: what the spread loop
\* adds to the buffer of node n when the activations are act
spread_activation(act, order, n) ==
    SumUpTo([i \in 1..Len(order) |->
               IF fully_active(act[order[i]]) THEN outgoing_spread[order[i]][n] ELSE 0],
            Len(order))

\* a faulty add_buffer: the buffer is always added and the sum is not brought
\* back into [0, 100]
add_buffer_unbounded(a, b, c) == a + b

\* a faulty add_buffer: the buffer is added whether the node is clamped or not
add_buffer_ignoring_clamp(a, b, c) == Min(Max(0, a + b), 100 * FP)

\* Slipnode.add_buffer: the activation of a node with activation a, buffer b
\* and clamped flag c
add_buffer(a, b, c) ==
    IF ~c THEN Min(Max(0, a + b), 100 * FP) ELSE Min(Max(0, a), 100 * FP)

\* Randomness.coin_flip(p) for p = pn/pd: rng.random() < p with random() in
\* [0,1), as the set of its possible results
coin_flip(pn, pd) == {r \in BOOLEAN : (r /\ pn > 0) \/ (~r /\ pn < pd)}

\* a faulty jump: the threshold is not looked at
jump_without_threshold(a, c, heads) ==
    IF c THEN a
    ELSE LET outcomes == coin_flip(a, 100 * FP)
             flipped == IF outcomes = BOOLEAN THEN heads ELSE TRUE \in outcomes
         IN  IF flipped THEN 100 * FP ELSE a

\* Slipnode.jump: the activation after the jump of a node with activation a
\* and clamped flag c; heads is the coin's result when it can fall either
\* way.  value = (a/100)**3 is compared with 0 and 1 through a/100.
jump(a, c, heads) ==
    IF c \/ a <= jump_threshold THEN a
    ELSE LET outcomes == coin_flip(a, 100 * FP)
             result == IF outcomes = BOOLEAN THEN heads ELSE TRUE \in outcomes
         IN  IF result THEN 100 * FP ELSE a

(***************************************************************************)
(* Slipnet.reset and Slipnet.update on the node attributes.                *)
(***************************************************************************)
\* for node in self.slipnodes
NodeOrder == [i \in 1..Len(slipnodes) |-> slipnodes[i].name]

\* a faulty reset: the buffers are left as they are
slipnet_reset_keeping_buffers(act, buf, clm, old) ==
    [activation |-> [n \in NodeNames |-> IF n \in APriori THEN 100 * FP ELSE 0],
     buffer |-> buf,
     clamped |-> [n \in NodeNames |-> IF n \in APriori THEN TRUE ELSE clm[n]],
     old_activation |-> old]

\* Slipnet.reset: node.reset() for every node, then clamp_high() for the
\* initially clamped ones
slipnet_reset(act, buf, clm, old) ==
    [activation |-> [n \in NodeNames |-> IF n \in APriori THEN 100 * FP ELSE 0],
     buffer |-> [n \in NodeNames |-> 0],
     clamped |-> [n \in NodeNames |-> IF n \in APriori THEN TRUE ELSE clm[n]],
     old_activation |-> old]

\* a faulty unclamping: one tick late
update_clamped_late(clm, k) ==
    IF k = UnclampTick + 1
    THEN [n \in NodeNames |-> IF n \in APriori THEN FALSE ELSE clm[n]]
    ELSE clm

\* the clamped flags of update number k: at the 50th the a-priori nodes unclamp
update_clamped(clm, k) ==
    IF k = UnclampTick THEN [n \in NodeNames |-> IF n \in APriori THEN FALSE ELSE clm[n]]
    ELSE clm

\* a faulty update: the decay loop runs twice
update_buffer_decaying_twice(act, buf, order) ==
    [n \in NodeNames |->
        node_update(act[n], node_update(act[n], buf[n], n), n)
        + spread_activation(act, order, n)]

\* the buffers after the decay loop and the spread loop of Slipnet.update
update_buffer(act, buf, order) ==
    [n \in NodeNames |-> node_update(act[n], buf[n], n) + spread_activation(act, order, n)]

\* the activations after add_buffer in the last loop of Slipnet.update
update_added(act, buf, clm, order) ==
    [n \in NodeNames |->
        add_buffer(act[n], update_buffer(act, buf, order)[n], clm[n])]

\* the activations after jump in the last loop of Slipnet.update; J holds
\* the nodes whose coin comes up heads
update_jumped(added, clm, J) ==
    [n \in NodeNames |-> jump(added[n], clm[n], n \in J)]

\* a faulty end of tick: the buffers of the nodes that jumped are not zeroed
update_cleared_unless_jumped(buf, added, jumped) ==
    [n \in NodeNames |-> IF jumped[n] # added[n] THEN buf[n] ELSE 0]

\* "node.buffer = 0.0" in the last loop of Slipnet.update: the buffers when
\* update returns, from the buffers buf it accumulated, the activations added
\* by add_buffer and the activations jumped after jump
update_cleared(buf, added, jumped) == [n \in NodeNames |-> 0]

\* the nodes whose jump draws a coin that can fall either way: those the two
\* results of the coin leave with different activations
JumpCandidates(added, clm) ==
    {n \in NodeNames : jump(added[n], clm[n], TRUE) # jump(added[n], clm[n], FALSE)}

(***************************************************************************)
(* Descriptions whose nodes the workspace activates between ticks.         *)
(***************************************************************************)
Description(descriptionType, descriptor) ==
    [descriptionType |-> descriptionType, descriptor |-> descriptor]

\* the descriptions of a Letter, as WorkspaceString.__init__ attaches them:
\* object category, letter category, then the string positions
LetterDescriptions(letter, positions) ==
    << Description("objectCategory", "letter"),
       Description("letterCategory", letter) >>
    \o [i \in 1..Len(positions) |->
          Description("stringPositionCategory", positions[i])]

\* the descriptions Group.__init__ attaches: object category, group category,
\* the facet's descriptor of a group without direction or else the direction,
\* the string position if any, the length if the coin adds it
GroupDescriptions(groupCategory, direction, facet, letter, position, length) ==
    << Description("objectCategory", "group"),
       Description("groupCategory", groupCategory) >>
    \o (IF direction = None THEN << Description(facet, letter) >>
        ELSE << Description("directionCategory", direction) >>)
    \o (IF position = None THEN << >>
        ELSE << Description("stringPositionCategory", position) >>)
    \o (IF length = None THEN << >> ELSE << Description("length", length) >>)

\* the objects whose descriptions build_descriptions is called for
BuiltDescriptionLists ==
    { LetterDescriptions(letters[1], << "leftmost" >>) }

\* the groups whose descriptions activateDescriptions is called for
ActivatedDescriptionLists ==
    { GroupDescriptions("successorGroup", "right", "letterCategory", None,
                        "whole", None) }

DescriptionTypes(ds) == {ds[i].descriptionType : i \in 1..Len(ds)}
Descriptors(ds) == {ds[i].descriptor : i \in 1..Len(ds)}

(***************************************************************************)
(* The workspace: one string of StringLength letters and the groups that   *)
(* are built over it.  An object is a number: the letters are              *)
(* 1..StringLength, in string order, and the groups follow.  A structure   *)
(* of Workspace.structures is a triple <<kind, object, index>>.            *)
(***************************************************************************)
\* None, as a reference to a workspace object
NoObject == 0

\* None, as a reference to a bond or a correspondence
NoStructure == << "none", 0, 0 >>

\* WorkspaceString.letters
Letters == 1..StringLength

\* slipnet.letters[value] of the letter at a position: the string is "ab",
\* "abc", ... over the letters of the network, its last letter repeated
letter_category(position) == letters[Min(position, NumLetters)]

\* Group(string, groupCategory, directionCategory, facet, objectList, bondList)
Group(groupCategory, directionCategory, facet, objectList) ==
    [groupCategory |-> groupCategory, directionCategory |-> directionCategory,
     facet |-> facet, objectList |-> objectList]

\* the groups the codelets propose: a sameness group over each letter, a
\* successor group over the first two letters, a successor group over that
\* group and the remaining letters
GroupPool ==
    [i \in 1..StringLength |->
        Group("samenessGroup", None, "letterCategory", << i >>)]
    \o (IF StringLength >= 2
        THEN << Group("successorGroup", "right", "letterCategory", << 1, 2 >>),
                Group("successorGroup", "right", "letterCategory",
                      << 2 * StringLength + 1 >>
                      \o [i \in 1..(StringLength - 2) |-> i + 2]) >>
        ELSE << >>)

GroupIds == (StringLength + 1)..(StringLength + Len(GroupPool))

ObjectIds == Letters \cup GroupIds

GroupOf(g) == GroupPool[g - StringLength]

objectList(g) == GroupOf(g).objectList

RECURSIVE leftIndex(_)
\* WorkspaceObject.leftIndex: of a group, that of objectList[0]
leftIndex(o) == IF o \in Letters THEN o ELSE leftIndex(objectList(o)[1])

RECURSIVE rightIndex(_)
\* WorkspaceObject.rightIndex: of a group, that of objectList[-1]
rightIndex(o) ==
    IF o \in Letters THEN o ELSE rightIndex(objectList(o)[Len(objectList(o))])

leftmost(o) == leftIndex(o) = 1

rightmost(o) == rightIndex(o) = StringLength

\* WorkspaceObject.spansString
spansString(o) == leftmost(o) /\ rightmost(o)

\* WorkspaceObject.isOutsideOf
isOutsideOf(self, other) ==
    \/ leftIndex(self) > rightIndex(other)
    \/ rightIndex(self) < leftIndex(other)

\* WorkspaceObject.middleObject, over the objects of the string
middleObject(strobjs, self) ==
    LET objectOnMyLeftIsLeftmost ==
            \E i \in 1..Len(strobjs) :
               leftmost(strobjs[i]) /\ rightIndex(strobjs[i]) = leftIndex(self) - 1
        objectOnMyRightIsRightmost ==
            \E i \in 1..Len(strobjs) :
               rightmost(strobjs[i]) /\ leftIndex(strobjs[i]) = rightIndex(self) + 1
    IN  objectOnMyRightIsRightmost /\ objectOnMyLeftIsLeftmost

\* WorkspaceObject.getDescriptor: the descriptor of the first description of
\* the type in the list ds
getDescriptor(ds, descriptionType) ==
    IF \E i \in 1..Len(ds) : ds[i].descriptionType = descriptionType
    THEN ds[CHOOSE i \in 1..Len(ds) :
                /\ ds[i].descriptionType = descriptionType
                /\ \A j \in 1..(i - 1) : ds[j].descriptionType # descriptionType].descriptor
    ELSE None

\* Letter.describe: the string positions a letter is described by
LetterPositions(position) ==
    (IF StringLength = 1 THEN << "single" >> ELSE << >>)
    \o (IF position = 1 THEN << "leftmost" >> ELSE << >>)
    \o (IF position = StringLength THEN << "rightmost" >> ELSE << >>)
    \o (IF StringLength > 2 /\ position * 2 = StringLength + 1
        THEN << "middle" >> ELSE << >>)

\* the string position Group.__init__ describes a group by, None if none
GroupPosition(strobjs, g) ==
    IF spansString(g) THEN "whole"
    ELSE IF leftmost(g) THEN "leftmost"
    ELSE IF rightmost(g) THEN "rightmost"
    ELSE IF middleObject(strobjs, g) THEN "middle"
    ELSE None

\* Group.add_length_description_category: the length descriptor, added when
\* the coin comes up heads and the group has fewer than 6 objects
GroupLength(g, heads) ==
    IF heads /\ Len(objectList(g)) < 6 THEN numbers[Len(objectList(g))] ELSE None

\* the results the coin of add_length_description_category can have: the
\* probability is 0.0 for more than 5 objects
LengthCoin(g) == IF Len(objectList(g)) > 5 THEN {FALSE} ELSE BOOLEAN

\* 0.5 ** fred of lengthDescriptionProbability as a probability in percent,
\* for fred given in halves
half_to_the(halves) ==
    LET whole == IF halves \div 2 > 14 THEN 0
                 ELSE (100 * FP) \div (2 ^ (halves \div 2))
    IN  IF halves % 2 = 0 THEN whole ELSE (whole * 7071) \div 10000

\* "probability = 0.5 ** fred" of lengthDescriptionProbability, in percent,
\* for a group of that many objects and the activation a of the length node
length_probability(length, a) ==
    half_to_the((length * length * length * (100 * FP - a) * 2) \div (100 * FP))

\* Temperature.getAdjustedProbability(probability), in percent: what the
\* temperature can make of a probability
getAdjustedProbability(probability) ==
    {0, 6 * FP - 1, 6 * FP, 50 * FP, 100 * FP, probability}

\* a faulty lengthDescriptionProbability: no floor at 0.06
lengthDescriptionProbability_without_floor(length, adjusted) ==
    IF length > 5 THEN 0 ELSE adjusted

\* Group.lengthDescriptionProbability, in percent, for a group of that many
\* objects, adjusted being the result of getAdjustedProbability
lengthDescriptionProbability(length, adjusted) ==
    IF length > 5 THEN 0
    ELSE IF adjusted < 6 * FP THEN 0 ELSE adjusted

\* Group.add_length_description_category: the descriptions it adds to a
\* group of that many objects when rng.random() is random / RandomSteps
add_length_description_category(length, adjusted, random) ==
    IF random * 100 * FP < lengthDescriptionProbability(length, adjusted) * RandomSteps
    THEN IF length < 6 THEN << Description("length", numbers[length]) >> ELSE << >>
    ELSE << >>

\* the elements of a sequence
Range(seq) == {seq[i] : i \in 1..Len(seq)}

\* list.remove(x): the list without the first x
Remove(seq, x) ==
    LET i == CHOOSE k \in 1..Len(seq) :
                 seq[k] = x /\ \A j \in 1..(k - 1) : seq[j] # x
    IN  SubSeq(seq, 1, i - 1) \o SubSeq(seq, i + 1, Len(seq))

\* the one element of a singleton
Only(S) == CHOOSE x \in S : TRUE

\* the structures of Workspace.structures
GroupStructure(g) == << "group", g, 0 >>
DescriptionStructure(o, j) == << "description", o, j >>
BondStructure(leftObject, rightObject) == << "bond", leftObject, rightObject >>
CorrespondenceStructure(o) == << "correspondence", o, 0 >>
RuleStructure(r) == << "rule", r, 0 >>

\* the workspace as one value: the fields the methods below read and write
Workspace(objs, structs, strobjs, grp, descs, corr, lb, rb, buf) ==
    [objects |-> objs, structures |-> structs, string_objects |-> strobjs,
     group |-> grp, descriptions |-> descs, correspondence |-> corr,
     leftBond |-> lb, rightBond |-> rb, buffer |-> buf]

\* Workspace.build_descriptions(objekt)
build_descriptions(ws, objekt) ==
    LET ds == ws.descriptions[objekt]
        fresh == SelectSeq([j \in 1..Len(ds) |-> DescriptionStructure(objekt, j)],
                           LAMBDA d : d \notin Range(ws.structures))
    IN  [ws EXCEPT
           !.buffer = [n \in NodeNames |->
                         IF n \in DescriptionTypes(ds) \cup Descriptors(ds)
                         THEN 100 * FP ELSE @[n]],
           !.structures = @ \o fresh]

\* Group.activateDescriptions
activateDescriptions(ws, g) ==
    [ws EXCEPT
       !.buffer = [n \in NodeNames |->
                     IF n \in Descriptors(ws.descriptions[g])
                     THEN 100 * FP ELSE @[n]]]

\* Group.__init__: the descriptions of the new group
new_group(ws, g, heads) ==
    [ws EXCEPT
       !.descriptions[g] =
           GroupDescriptions(GroupOf(g).groupCategory, GroupOf(g).directionCategory,
                             GroupOf(g).facet,
                             getDescriptor(ws.descriptions[objectList(g)[1]],
                                           GroupOf(g).facet),
                             GroupPosition(ws.string_objects, g),
                             GroupLength(g, heads))]

\* Group.buildGroup
buildGroup(ws, g) ==
    activateDescriptions(
        build_descriptions(
            [ws EXCEPT
               !.objects = @ \o << g >>,
               !.structures = @ \o << GroupStructure(g) >>,
               !.string_objects = @ \o << g >>,
               !.group = [o \in ObjectIds |->
                            IF o \in Range(objectList(g)) THEN g ELSE @[o]]],
            g),
        g)

\* Correspondence.breakCorrespondence, for the correspondence of object o
breakCorrespondence(ws, o) ==
    [ws EXCEPT
       !.structures = IF ws.correspondence[o] \in Range(@)
                      THEN Remove(@, ws.correspondence[o]) ELSE @,
       !.correspondence[o] = NoStructure]

\* Bond.breakBond, for the bond b = <<"bond", leftObject, rightObject>>
breakBond(ws, b) ==
    [ws EXCEPT
       !.structures = IF b \in Range(@) THEN Remove(@, b) ELSE @,
       !.rightBond[b[2]] = NoStructure,
       !.leftBond[b[3]] = NoStructure]

\* Description.breakDescription, for the last description of object o
breakDescription(ws, o) ==
    LET d == DescriptionStructure(o, Len(ws.descriptions[o]))
    IN  [ws EXCEPT
           !.structures = IF d \in Range(@) THEN Remove(@, d) ELSE @,
           !.descriptions[o] = SubSeq(@, 1, Len(@) - 1)]

RECURSIVE breakGroup_descriptions(_, _)
\* "while len(self.descriptions): self.descriptions[-1].breakDescription()"
breakGroup_descriptions(ws, g) ==
    IF Len(ws.descriptions[g]) = 0 THEN ws
    ELSE breakGroup_descriptions(Only({breakDescription(ws, g)}), g)

\* "if self.leftBond: ... if self.rightBond: ..." of Group.breakGroup
breakGroup_bonds(ws, g) ==
    Only({ IF w.rightBond[g] # NoStructure THEN breakBond(w, w.rightBond[g]) ELSE w :
           w \in { IF ws.leftBond[g] # NoStructure
                   THEN breakBond(ws, ws.leftBond[g]) ELSE ws } })

\* a faulty end of breakGroup: the group stays in the objects of its string
breakGroup_remove_keeping_string(ws, g) ==
    [ws EXCEPT
       !.group = [o \in ObjectIds |->
                    IF o \in Range(objectList(g)) THEN NoObject ELSE @[o]],
       !.structures = IF GroupStructure(g) \in Range(@)
                      THEN Remove(@, GroupStructure(g)) ELSE @,
       !.objects = IF g \in Range(@) THEN Remove(@, g) ELSE @]

\* a faulty end of breakGroup: the objects keep their pointer to the group
breakGroup_remove_keeping_group(ws, g) ==
    [ws EXCEPT
       !.structures = IF GroupStructure(g) \in Range(@)
                      THEN Remove(@, GroupStructure(g)) ELSE @,
       !.objects = IF g \in Range(@) THEN Remove(@, g) ELSE @,
       !.string_objects = IF g \in Range(@) THEN Remove(@, g) ELSE @]

\* the end of Group.breakGroup: the group pointers of the objects are cleared
\* and the group leaves the three lists
breakGroup_remove(ws, g) ==
    [ws EXCEPT
       !.group = [o \in ObjectIds |->
                    IF o \in Range(objectList(g)) THEN NoObject ELSE @[o]],
       !.structures = IF GroupStructure(g) \in Range(@)
                      THEN Remove(@, GroupStructure(g)) ELSE @,
       !.objects = IF g \in Range(@) THEN Remove(@, g) ELSE @,
       !.string_objects = IF g \in Range(@) THEN Remove(@, g) ELSE @]

RECURSIVE breakGroup(_, _)
\* Group.breakGroup: the correspondence, the containing group, the bonds,
\* the descriptions, then the group itself
breakGroup(ws, g) ==
    Only({ breakGroup_remove(w4, g) :
           w4 \in { breakGroup_descriptions(w3, g) :
           w3 \in { breakGroup_bonds(w2, g) :
           w2 \in { IF w1.group[g] # NoObject
                    THEN breakGroup(w1, w1.group[g]) ELSE w1 :
           w1 \in { IF ws.correspondence[g] # NoStructure
                    THEN breakCorrespondence(ws, g) ELSE ws } } } } })

\* one statement of Group.breakGroup on a group, the workspace it leaves, and
\* the statements run before it
Step(steps, statement, g, ws) ==
    steps \o << [statement |-> statement, self |-> g, after |-> ws] >>

\* the workspace after the statements run so far
After(ws, steps) == IF Len(steps) = 0 THEN ws ELSE steps[Len(steps)].after

RECURSIVE breakGroup_steps_bonds_first(_, _, _)
\* a faulty breakGroup: the bonds are broken before the containing group
breakGroup_steps_bonds_first(ws, steps, g) ==
    Only({ Step(s5, "remove", g, breakGroup_remove(After(ws, s5), g)) :
           s5 \in { Step(s4, "breakDescription", g,
                         breakGroup_descriptions(After(ws, s4), g)) :
           s4 \in { IF After(ws, s3).group[g] # NoObject
                    THEN breakGroup_steps_bonds_first(ws, s3, After(ws, s3).group[g])
                    ELSE s3 :
           s3 \in { IF After(ws, s2).rightBond[g] # NoStructure
                    THEN Step(s2, "breakBond", g,
                              breakBond(After(ws, s2), After(ws, s2).rightBond[g]))
                    ELSE s2 :
           s2 \in { IF After(ws, s1).leftBond[g] # NoStructure
                    THEN Step(s1, "breakBond", g,
                              breakBond(After(ws, s1), After(ws, s1).leftBond[g]))
                    ELSE s1 :
           s1 \in { IF After(ws, steps).correspondence[g] # NoStructure
                    THEN Step(steps, "breakCorrespondence", g,
                              breakCorrespondence(After(ws, steps), g))
                    ELSE steps } } } } } })

RECURSIVE breakGroup_steps(_, _, _)
\* the statements of Group.breakGroup in the order they run, each with the
\* workspace it leaves: steps are those already run on the workspace ws
breakGroup_steps(ws, steps, g) ==
    Only({ Step(s5, "remove", g, breakGroup_remove(After(ws, s5), g)) :
           s5 \in { Step(s4, "breakDescription", g,
                         breakGroup_descriptions(After(ws, s4), g)) :
           s4 \in { IF After(ws, s3).rightBond[g] # NoStructure
                    THEN Step(s3, "breakBond", g,
                              breakBond(After(ws, s3), After(ws, s3).rightBond[g]))
                    ELSE s3 :
           s3 \in { IF After(ws, s2).leftBond[g] # NoStructure
                    THEN Step(s2, "breakBond", g,
                              breakBond(After(ws, s2), After(ws, s2).leftBond[g]))
                    ELSE s2 :
           s2 \in { IF After(ws, s1).group[g] # NoObject
                    THEN breakGroup_steps(ws, s1, After(ws, s1).group[g])
                    ELSE s1 :
           s1 \in { IF After(ws, steps).correspondence[g] # NoStructure
                    THEN Step(steps, "breakCorrespondence", g,
                              breakCorrespondence(After(ws, steps), g))
                    ELSE steps } } } } } })

\* the workspace before any string is made
EmptyWorkspace(buf) ==
    Workspace(<< >>, << >>, << >>,
              [o \in ObjectIds |-> NoObject], [o \in ObjectIds |-> << >>],
              [o \in ObjectIds |-> NoStructure], [o \in ObjectIds |-> NoStructure],
              [o \in ObjectIds |-> NoStructure], buf)

\* Letter.__init__ and the body of the loop of WorkspaceString.__init__ for
\* the letter at a position
new_letter(ws, position) ==
    build_descriptions(
        [ws EXCEPT
           !.objects = @ \o << position >>,
           !.string_objects = @ \o << position >>,
           !.descriptions[position] =
               LetterDescriptions(letter_category(position),
                                  LetterPositions(position))],
        position)

RECURSIVE new_letters(_, _)
\* the loop of WorkspaceString.__init__ up to a position
new_letters(ws, position) ==
    IF position = 0 THEN ws
    ELSE new_letter(Only({new_letters(ws, position - 1)}), position)

\* WorkspaceString.__init__ in an empty workspace
WorkspaceString(buf) == new_letters(EmptyWorkspace(buf), StringLength)

\* how many groups, bonds and correspondences are in Workspace.structures
BuiltCount(structs) ==
    Cardinality({i \in 1..Len(structs) :
                    structs[i][1] \in {"group", "bond", "correspondence"}})

(***************************************************************************)
(* Strengths of workspace structures.                                      *)
(***************************************************************************)
\* a structure of a class that implements the contract of WorkspaceStructure
\* (a bond), beside the groups
TheBond == StringLength + Len(GroupPool) + 1

StructureIds == GroupIds \cup {TheBond}

ClassOf(s) == IF s \in GroupIds THEN "Group" ELSE "Bond"

\* the methods each class defines in its own body
ClassMethods ==
    [c \in {"Group", "WorkspaceObject", "WorkspaceStructure", "Bond"} |->
        CASE c = "Group" ->
                {"__init__", "add_length_description_category", "__str__",
                 "getIncompatibleGroups", "addBondDescription",
                 "singleLetterGroupProbability", "flippedVersion", "buildGroup",
                 "activateDescriptions", "lengthDescriptionProbability",
                 "break_the_structure", "breakGroup", "updateInternalStrength",
                 "updateExternalStrength", "localSupport",
                 "numberOfLocalSupportingGroups", "localDensity", "sameGroup",
                 "distinguishingDescriptor"}
          [] c = "WorkspaceObject" ->
                {"__init__", "__str__", "spansString", "addDescription",
                 "addDescriptions", "updateValue", "isWithin", "isOutsideOf",
                 "relevantDescriptions", "getPossibleDescriptions",
                 "containsDescription", "described", "middleObject",
                 "distinguishingDescriptor", "relevantDistinguishingDescriptors",
                 "getDescriptor", "getDescriptionType", "getCommonGroups",
                 "letterDistance", "letterSpan", "beside"}
          [] c = "WorkspaceStructure" ->
                {"__init__", "update_strength", "update_total_strength",
                 "total_weakness", "update_internal_strength",
                 "update_external_strength", "break_the_structure"}
          [] c = "Bond" ->
                {"__init__", "update_internal_strength",
                 "update_external_strength", "break_the_structure"}]

\* the classes a method is looked up in, in order
MethodResolutionOrder ==
    [c \in {"Group", "Bond"} |->
        IF c = "Group" THEN << "Group", "WorkspaceObject", "WorkspaceStructure" >>
        ELSE << "Bond", "WorkspaceStructure" >>]

\* the class whose definition a call of the method on an instance of cls
\* runs, None if no class of the order defines it
resolve(cls, method) ==
    LET mro == MethodResolutionOrder[cls]
        found == {i \in 1..Len(mro) : method \in ClassMethods[mro[i]]}
    IN  IF found = {} THEN None
        ELSE mro[CHOOSE i \in found : \A j \in found : i <= j]

\* formulas.weighted_average over (value, weight) pairs
\* a faulty average: the weights are not looked at
weighted_average_unweighted(values) ==
    IF values = << >> THEN 0
    ELSE SumUpTo([i \in 1..Len(values) |-> values[i][1]], Len(values)) \div Len(values)

weighted_average(values) ==
    LET total == SumUpTo([i \in 1..Len(values) |-> values[i][1] * values[i][2]],
                         Len(values))
        total_weights == SumUpTo([i \in 1..Len(values) |-> values[i][2]], Len(values))
    IN  IF total_weights = 0 THEN 0 ELSE total \div total_weights

\* the strengths of the structures as one value
Strengths(internal, external, total, outcome) ==
    [internal_strength |-> internal, external_strength |-> external,
     total_strength |-> total, outcome |-> outcome]

\* WorkspaceStructure.update_total_strength
update_total_strength(st, s) ==
    [st EXCEPT
       !.total_strength[s] =
           weighted_average(<< << st.internal_strength[s], st.internal_strength[s] >>,
                               << st.external_strength[s],
                                  100 * FP - st.internal_strength[s] >> >>)]

\* a faulty update_strength: the total is recombined before the internal and
\* external strengths are updated
update_strength_total_first(st, s, internal, external) ==
    IF resolve(ClassOf(s), "update_internal_strength") = "WorkspaceStructure"
       \/ resolve(ClassOf(s), "update_external_strength") = "WorkspaceStructure"
    THEN [st EXCEPT !.outcome = "NotImplementedError"]
    ELSE [update_total_strength(st, s) EXCEPT
            !.internal_strength[s] = internal,
            !.external_strength[s] = external,
            !.outcome = "returned"]

\* WorkspaceStructure.update_strength on structure s; internal and external
\* are what the update_internal_strength and update_external_strength of the
\* structure's class compute when the class overrides them
update_strength(st, s, internal, external) ==
    IF resolve(ClassOf(s), "update_internal_strength") = "WorkspaceStructure"
    THEN [st EXCEPT !.outcome = "NotImplementedError"]
    ELSE IF resolve(ClassOf(s), "update_external_strength") = "WorkspaceStructure"
    THEN [st EXCEPT !.internal_strength[s] = internal,
                    !.outcome = "NotImplementedError"]
    ELSE Only({ [update_total_strength(st2, s) EXCEPT !.outcome = "returned"] :
                st2 \in { [st EXCEPT !.internal_strength[s] = internal,
                                     !.external_strength[s] = external] } })

\* the strengths a conforming structure's own methods compute
StrengthValues == {(k * 100 * FP) \div StrengthSteps : k \in 0..StrengthSteps}

\* Slipnode.get_related_node
get_related_node(node, relation) ==
    IF relation = "identity" THEN node
    ELSE LET out == outgoing_links[node]
             found == {j \in 1..Len(out) : sliplinks[out[j]].label = relation}
         IN  IF found = {} THEN None
             ELSE sliplinks[out[CHOOSE j \in found : \A k \in found : j <= k]].destination

\* node.get_related_node(slipnet.bond_category), for every node
related_bond_category ==
    [node \in NodeNames |-> get_related_node(node, "bondCategory")]

\* Slipnode.shrunk_link_length
shrunk_link_length ==
    [n \in NodeNames |-> (intrinsic_link_length[n] * FP * 4) \div 10]

\* Slipnode.degree_of_association of node n with activation a
degree_of_association(n, a) ==
    100 * FP - (IF fully_active(a) THEN shrunk_link_length[n]
                ELSE intrinsic_link_length[n] * FP)

\* x ** 0.98 for the degrees of association the bond categories have (100,
\* 76 and 40): 91.20, 69.69 and 37.15
pow_098(x) ==
    CASE x = 100 * FP -> 91 * FP + 20
      [] x = 76 * FP -> 69 * FP + 69
      [] x = 40 * FP -> 37 * FP + 15

\* a faulty table: the factor grows again after length 4
lengthFactor_growing(length) ==
    CASE length = 1 -> 5 * FP
      [] length = 2 -> 20 * FP
      [] length = 3 -> 60 * FP
      [] length = 4 -> 90 * FP
      [] OTHER -> 100 * FP

\* the table of Group.updateInternalStrength
lengthFactor(length) ==
    CASE length = 1 -> 5 * FP
      [] length = 2 -> 20 * FP
      [] length = 3 -> 60 * FP
      [] OTHER -> 90 * FP

\* relatedBondAssociation of Group.updateInternalStrength
relatedBondAssociation(g, act) ==
    Only({ degree_of_association(related, act[related]) :
           related \in {related_bond_category[GroupOf(g).groupCategory]} })

\* bondWeight, lengthFactor, lengthWeight and the weighted average of
\* Group.updateInternalStrength
internal_strength_formula(association, length) ==
    Only({ weighted_average(<< << association, bondWeight >>,
                               << lengthFactor(length), 100 * FP - bondWeight >> >>) :
           bondWeight \in {pow_098(association)} })

\* Group.updateInternalStrength: the value it assigns to internalStrength
updateInternalStrength(g, act) ==
    Only({ internal_strength_formula(association, Len(objectList(g))) :
           association \in {relatedBondAssociation(g, act)} })

\* Group.updateInternalStrength of a group of the given category and length
\* when the related bond category has activation a: its local variables and
\* the internalStrength it assigns
updateInternalStrength_locals(groupCategory, a, length) ==
    Only({ [relatedBondAssociation |-> association,
            bondWeight |-> pow_098(association),
            lengthFactor |-> lengthFactor(length),
            internalStrength |-> internal_strength_formula(association, length)] :
           association \in {degree_of_association(related_bond_category[groupCategory], a)} })

\* Group.numberOfLocalSupportingGroups
numberOfLocalSupportingGroups(strobjs, g) ==
    Cardinality({i \in 1..Len(strobjs) :
                    /\ strobjs[i] \in GroupIds
                    /\ isOutsideOf(g, strobjs[i])
                    /\ GroupOf(strobjs[i]).groupCategory = GroupOf(g).groupCategory
                    /\ GroupOf(strobjs[i]).directionCategory
                          = GroupOf(g).directionCategory})

\* Group.localDensity
localDensity(strobjs, g) ==
    LET halfLength == (StringLength * FP) \div 2
    IN  (100 * FP * numberOfLocalSupportingGroups(strobjs, g) * FP) \div halfLength

\* 0.6 ** (1 / n ** 3) for n supporters: 0.6, 0.938, 0.981, then above 0.99
\* and below 1
pow_06_cube_root(n) ==
    CASE n = 1 -> (60 * FP) \div 100
      [] n = 2 -> (93 * FP) \div 100
      [] n = 3 -> (98 * FP) \div 100
      [] OTHER -> (99 * FP) \div 100

\* x ** 0.5
sqrt(x) == CHOOSE r \in 0..(x * FP + 1) : r * r <= x * FP /\ x * FP < (r + 1) * (r + 1)

\* Group.localSupport
localSupport(strobjs, g) ==
    LET numberOfSupporters == numberOfLocalSupportingGroups(strobjs, g)
        supportFactor == Min(FP, pow_06_cube_root(numberOfSupporters))
        densityFactor == (100 * FP * sqrt(localDensity(strobjs, g) \div 100)) \div FP
    IN  IF numberOfSupporters = 0 THEN 0
        ELSE (densityFactor * supportFactor) \div FP

\* Group.updateExternalStrength: the value it assigns to externalStrength
updateExternalStrength(strobjs, g) ==
    IF spansString(g) THEN 100 * FP ELSE localSupport(strobjs, g)

(***************************************************************************)
(* Initial states.                                                         *)
(***************************************************************************)
\* the network after Slipnet.__init__, which ends with reset(); the buffers
\* are set apart
SlipnetInit ==
    LET net == slipnet_reset([n \in NodeNames |-> 0], [n \in NodeNames |-> 0],
                             [n \in NodeNames |-> FALSE],
                             [n \in NodeNames |-> NoFloat])
    IN  /\ activation = net.activation
        /\ clamped = net.clamped
        /\ old_activation = net.old_activation
        /\ number_of_updates = 0
        /\ injections = 0
        /\ lastOp = "init"
        /\ spread_buffer = [n \in NodeNames |-> 0]

\* the workspace and the buffers of the network are those of ws
WorkspaceIs(ws) ==
    /\ objects = ws.objects
    /\ structures = ws.structures
    /\ string_objects = ws.string_objects
    /\ group = ws.group
    /\ descriptions = ws.descriptions
    /\ correspondence = ws.correspondence
    /\ leftBond = ws.leftBond
    /\ rightBond = ws.rightBond
    /\ buffer = ws.buffer

\* WorkspaceStructure.__init__ for every structure; a Group has no
\* internalStrength or externalStrength until its methods assign them
StrengthInit ==
    /\ internal_strength = [s \in StructureIds |-> 0]
    /\ external_strength = [s \in StructureIds |-> 0]
    /\ total_strength = [s \in StructureIds |-> 0]
    /\ internalStrength = [g \in GroupIds |-> NoFloat]
    /\ externalStrength = [g \in GroupIds |-> NoFloat]
    /\ call = [op |-> "none", self |-> NoObject, outcome |-> "returned"]

\* WorkspaceObject.__init__: the values of every object
ValueInit ==
    /\ rawImportance = [o \in ObjectIds |-> 0]
    /\ relativeImportance = [o \in ObjectIds |-> 0]
    /\ intraStringUnhappiness = [o \in ObjectIds |-> 0]
    /\ interStringUnhappiness = [o \in ObjectIds |-> 0]
    /\ totalUnhappiness = [o \in ObjectIds |-> 0]
    /\ intraStringSalience = [o \in ObjectIds |-> 0]
    /\ interStringSalience = [o \in ObjectIds |-> 0]
    /\ totalSalience = [o \in ObjectIds |-> 0]
    /\ intra_string_unhappiness = 0

\* Workspace.__init__: no rule
RuleInit ==
    /\ rule = NoStructure
    /\ built_rules = << >>

\* no function has been called
FunctionInit ==
    /\ args = [function |-> "none", pending |-> FALSE]
    /\ returned = None

\* the parts of the state the concept network's operations leave alone
notNet == <<wsVars, strengthVars, call, functionVars, valueVars, ruleVars>>

\* the parts of the network the workspace's operations leave alone
netRest == <<activation, clamped, old_activation, number_of_updates, injections,
             lastOp, spread_buffer>>

(***************************************************************************)
(* Actions of the concept network.                                         *)
(***************************************************************************)
NetInit ==
    /\ SlipnetInit
    /\ WorkspaceIs(EmptyWorkspace([n \in NodeNames |-> 0]))
    /\ StrengthInit
    /\ ValueInit
    /\ RuleInit
    /\ FunctionInit

\* Slipnet.reset
Reset ==
    LET net == slipnet_reset(activation, buffer, clamped, old_activation)
    IN  /\ number_of_updates' = 0
        /\ activation' = net.activation
        /\ buffer' = net.buffer
        /\ clamped' = net.clamped
        /\ old_activation' = net.old_activation
        /\ lastOp' = "reset"
        /\ UNCHANGED <<injections, spread_buffer, notNet>>

\* Slipnet.update
Update ==
    /\ number_of_updates < MaxUpdates
    /\ \E k \in {number_of_updates + 1} :
       \E c \in {update_clamped(clamped, k)} :
       \E spread \in {update_buffer(activation, buffer, NodeOrder)} :
       \E added \in {update_added(activation, buffer, c, NodeOrder)} :
       \E J \in SUBSET JumpCandidates(added, c) :
          /\ number_of_updates' = k
          /\ old_activation' = activation
          /\ activation' = update_jumped(added, c, J)
          /\ buffer' = update_cleared(spread, added, activation')
          /\ clamped' = c
          /\ spread_buffer' = spread
          /\ lastOp' = "update"
          /\ UNCHANGED <<injections, notNet>>

\* when the workspace activates descriptions
CanInject ==
    /\ injections < MaxInject
    /\ number_of_updates + 1 >= UnclampTick - InjectWindow

\* Workspace.build_descriptions, as the network sees it
BuildDescriptions ==
    /\ CanInject
    /\ \E ds \in BuiltDescriptionLists :
          buffer' = [n \in NodeNames |->
                       IF n \in DescriptionTypes(ds) \cup Descriptors(ds)
                       THEN 100 * FP ELSE buffer[n]]
    /\ injections' = injections + 1
    /\ lastOp' = "inject"
    /\ UNCHANGED <<activation, clamped, old_activation, number_of_updates,
                   spread_buffer, notNet>>

\* Group.activateDescriptions, as the network sees it
ActivateDescriptions ==
    /\ CanInject
    /\ \E ds \in ActivatedDescriptionLists :
          buffer' = [n \in NodeNames |->
                       IF n \in Descriptors(ds) THEN 100 * FP ELSE buffer[n]]
    /\ injections' = injections + 1
    /\ lastOp' = "inject"
    /\ UNCHANGED <<activation, clamped, old_activation, number_of_updates,
                   spread_buffer, notNet>>

NetNext == Reset \/ Update \/ BuildDescriptions \/ ActivateDescriptions

SpecNet == NetInit /\ [][NetNext]_vars

(***************************************************************************)
(* Properties of the concept network.                                      *)
(***************************************************************************)
\* C1: after Slipnet.reset(), whatever updates and buffer injections came
\* before, every buffer is 0, every node that is not a-priori has activation
\* 0, each a-priori node is clamped with activation 100, and
\* number_of_updates is 0.
C1_ResetPostState ==
    lastOp = "reset" =>
        /\ \A n \in NodeNames : buffer[n] = 0
        /\ \A n \in NodeNames \ APriori : activation[n] = 0
        /\ \A n \in APriori : clamped[n] /\ activation[n] = 100 * FP
        /\ number_of_updates = 0

\* a reset of a network that ran past the unclamping tick (its last update
\* began with letterCategory below 100 and other nodes active) after a
\* description was activated
C1_Witness ==
    /\ lastOp = "reset"
    /\ injections > 0
    /\ old_activation["letterCategory"] \in 0..(100 * FP - 1)
    /\ \E n \in NodeNames \ APriori : old_activation[n] > 0

\* C2: in every reachable state, every node's activation lies in [0, 100].
C2_ActivationInRange ==
    \A n \in NodeNames : activation[n] \in 0..(100 * FP)

\* an update that took an unclamped node from 0 to 100 (a buffer of 100 was
\* added) while another unclamped node sits strictly inside the range
C2_Witness ==
    /\ lastOp = "update"
    /\ \E n \in NodeNames : /\ ~clamped[n]
                            /\ old_activation[n] = 0
                            /\ activation[n] = 100 * FP
    /\ \E n \in NodeNames : ~clamped[n] /\ activation[n] \in 1..(100 * FP - 1)

\* C3: an update leaves the activation of every node that is clamped during
\* it exactly as it was: no decay, no incoming spread, no jump; so it stays
\* unchanged over any run of updates during which the node is clamped.
C3_ClampedUnchanged ==
    [][lastOp' = "update" =>
          \A n \in NodeNames : clamped'[n] => activation'[n] = activation[n]]_netVars

\* the 49th update since reset, made with a buffer of 100 waiting on the
\* clamped letterCategory node (build_descriptions set it together with the
\* buffer of "letter", which rose from 0 to 100)
C3_Witness ==
    /\ lastOp = "update"
    /\ number_of_updates = UnclampTick - 1
    /\ clamped["letterCategory"]
    /\ activation["letterCategory"] = 100 * FP
    /\ old_activation["letter"] = 0
    /\ activation["letter"] = 100 * FP

\* C4: the a-priori nodes are clamped with activation 100 until the 50th
\* update since the last reset has returned and unclamped from then on; only
\* the 50th update since a reset changes a clamped flag; a reset clamps them
\* again and restarts the count.
C4_UnclampAtFiftiethUpdate ==
    /\ [](\A n \in APriori :
             /\ clamped[n] <=> number_of_updates < UnclampTick
             /\ clamped[n] => activation[n] = 100 * FP)
    /\ [][/\ (lastOp' = "update" /\ number_of_updates' # UnclampTick)
                => clamped' = clamped
          /\ lastOp' = "reset"
                => number_of_updates' = 0 /\ \A n \in APriori : clamped'[n]]_netVars

\* the 51st update since reset: the a-priori nodes are unclamped and
\* letterCategory has decayed
C4_Witness ==
    /\ lastOp = "update"
    /\ number_of_updates = UnclampTick + 1
    /\ \A n \in APriori : ~clamped[n]
    /\ activation["letterCategory"] < 100 * FP

\* the closed form of one tick for node n from the state at its start: the
\* activation a and buffer b of n, its decay, and the sum S over the incoming
\* links of n whose source is fully active, brought into [0, 100]
staged_activation(n) ==
    LET a == activation[n]
        b == buffer[n]
        inc == incoming_links[n]
        S == SumUpTo([j \in 1..Len(inc) |->
                        IF fully_active(activation[sliplinks[inc[j]].source])
                        THEN intrinsic_degree_of_association(sliplinks[inc[j]])
                        ELSE 0], Len(inc))
    IN  Min(Max(0, a + b - (a * (100 - conceptual_depth[n])) \div 100 + S), 100 * FP)

\* C5: an update is simultaneous: every node unclamped during it ends the
\* integrate step at clamp(a + b - a*(100 - depth)/100 + S), with a, b and
\* the fully active sources of S all taken at the start of the tick, and
\* then either keeps that value or, if it is above the jump threshold, may
\* jump to 100; nothing a node gains during the tick is spread in that tick.
C5_SimultaneousUpdate ==
    [][lastOp' = "update" =>
          \A n \in NodeNames :
             ~clamped'[n] =>
                \/ activation'[n] = staged_activation(n)
                \/ /\ staged_activation(n) > jump_threshold
                   /\ activation'[n] = 100 * FP]_netVars

\* an update in which an unclamped node that was already active decayed and
\* received spread from a fully active source, while another unclamped node
\* began the tick fully active (it spread in this tick, not before)
C5_Witness ==
    /\ lastOp = "update"
    /\ \E n \in NodeNames :
          /\ ~clamped[n]
          /\ old_activation[n] > 0
          /\ activation[n] \notin {old_activation[n], 100 * FP}
          /\ \E j \in 1..Len(incoming_links[n]) :
                /\ fully_active(old_activation[sliplinks[incoming_links[n][j]].source])
                /\ intrinsic_degree_of_association(sliplinks[incoming_links[n][j]]) > 0
    /\ \E m \in NodeNames \ APriori : fully_active(old_activation[m])

\* C6: when update returns, every node's buffer is 0, clamped or not, jumped
\* or not, whatever the buffers were at the start of the tick.
C6_BuffersZeroAfterUpdate ==
    lastOp = "update" => \A n \in NodeNames : buffer[n] = 0

\* an update that began with a buffer of 100 on "right" (set by
\* activateDescriptions) and with the clamped stringPositionCategory untouched
C6_Witness ==
    /\ lastOp = "update"
    /\ old_activation["right"] = 0
    /\ activation["right"] = 100 * FP
    /\ buffer["right"] = 0
    /\ \E n \in NodeNames : clamped[n] /\ buffer[n] = 0

\* C17: reset erases history: after reset the node state (activation,
\* buffer, clamped flag and remembered previous activation) and the tick
\* counter are those of a network that was just constructed, whatever
\* updates and injections came before, so that two networks that are both
\* reset are in the same state.
C17_ResetErasesHistory ==
    lastOp = "reset" =>
       LET fresh == slipnet_reset([n \in NodeNames |-> 0], [n \in NodeNames |-> 0],
                                  [n \in NodeNames |-> FALSE],
                                  [n \in NodeNames |-> NoFloat])
       IN  /\ activation = fresh.activation
           /\ buffer = fresh.buffer
           /\ clamped = fresh.clamped
           /\ old_activation = fresh.old_activation
           /\ number_of_updates = 0

\* the activation of node n after add_buffer in the last update, from the
\* activation it began the tick with and its buffer after the spread loop
post_integration(n) ==
    IF clamped[n] THEN old_activation[n]
    ELSE Min(Max(0, old_activation[n] + spread_buffer[n]), 100 * FP)

\* C18: after an update every node is at its post-integration activation or
\* at 100; it differs from its post-integration activation only if it is
\* unclamped and that activation is strictly greater than 55, so a clamped
\* node and a node at 55 or less keep exactly their post-integration value.
C18_JumpOnlyAboveThreshold ==
    lastOp = "update" =>
       \A n \in NodeNames :
          /\ activation[n] \in {post_integration(n), 100 * FP}
          /\ activation[n] # post_integration(n) =>
                ~clamped[n] /\ post_integration(n) > 55 * FP
          /\ clamped[n] \/ post_integration(n) <= 55 * FP =>
                activation[n] = post_integration(n)

\* an update after which one unclamped node above 55 has jumped to 100,
\* another unclamped node above 55 has not, and a third stays between 0
\* and 55
C18_Witness ==
    /\ lastOp = "update"
    /\ \E n, m, k \in NodeNames :
          /\ ~clamped[n] /\ ~clamped[m] /\ ~clamped[k]
          /\ post_integration(n) > 55 * FP /\ post_integration(n) < 100 * FP
          /\ activation[n] = 100 * FP
          /\ post_integration(m) > 55 * FP /\ post_integration(m) < 100 * FP
          /\ activation[m] = post_integration(m)
          /\ post_integration(k) > 0 /\ post_integration(k) <= 55 * FP
          /\ activation[k] = post_integration(k)

\* the buffer of node n after the decay loop and the spread loop of an update
\* that begins in the current state, when link number i adds amount[i] to
\* the buffer of its destination
buffer_after_spread(n, amount) ==
    LET inc == incoming_links[n]
    IN  buffer[n] - (activation[n] * (100 - conceptual_depth[n])) \div 100
        + SumUpTo([j \in 1..Len(inc) |->
                     IF fully_active(activation[sliplinks[inc[j]].source])
                     THEN amount[inc[j]] ELSE 0], Len(inc))

\* link number i has a length: a fixed length above 1, or a label node
has_length(i) == sliplinks[i].fixed_length > 1 \/ sliplinks[i].label # None

\* the length of link number i: its fixed length if that is above 1, else the
\* intrinsic link length of its label node
link_length(i) ==
    IF sliplinks[i].fixed_length > 1 THEN sliplinks[i].fixed_length * FP
    ELSE intrinsic_link_length[sliplinks[i].label] * FP

\* C19 as stated: a fully active node adds 100 minus the link's length to the
\* buffer of the link's destination, and 0.4 of the length is taken instead
\* when the destination is itself fully active.
C19_SpreadUsesShrunkLength ==
    [][lastOp' = "update" =>
          \A n \in NodeNames :
             spread_buffer'[n] =
                buffer_after_spread(n,
                   [i \in 1..Len(sliplinks) |->
                      IF ~has_length(i) THEN 0
                      ELSE IF fully_active(activation[n])
                      THEN 100 * FP - (link_length(i) * 4) \div 10
                      ELSE 100 * FP - link_length(i)])]_netVars

\* C19, amended: a fully active node adds to the buffer of a link's
\* destination 100 minus the link's fixed length when that is above 1, else
\* 100 minus the intrinsic link length of the link's label node, else 0;
\* the amount is the same whether the destination is fully active or not.
C19_SpreadUsesIntrinsicLength ==
    [][lastOp' = "update" =>
          \A n \in NodeNames :
             spread_buffer'[n] =
                buffer_after_spread(n,
                   [i \in 1..Len(sliplinks) |->
                      IF ~has_length(i) THEN 0
                      ELSE 100 * FP - link_length(i)])]_netVars

\* an update in which a fully active node spread over a link of length above
\* 0 to a node that began the tick fully active itself
C19_Witness ==
    /\ lastOp = "update"
    /\ \E i \in 1..Len(sliplinks) :
          /\ has_length(i)
          /\ link_length(i) > 0
          /\ fully_active(old_activation[sliplinks[i].source])
          /\ fully_active(old_activation[sliplinks[i].destination])
          /\ sliplinks[i].source # sliplinks[i].destination

\* C20 as stated: the decay loop and the spread loop of an update change
\* neither the activation nor the buffer of a node that is clamped.
C20_ClampedNotMutated ==
    [][lastOp' = "update" =>
          \A n \in NodeNames :
             clamped'[n] => /\ activation'[n] = activation[n]
                            /\ spread_buffer'[n] = buffer[n]]_netVars

\* C20, amended: an update leaves the activation of a clamped node as it
\* was; the node's buffer is not protected: the decay loop takes
\* activation * (100 - depth) / 100 from it and the spread loop adds to it
\* what the fully active sources of its incoming links spread, as for an
\* unclamped node, and only the end of the update sets it to 0.
C20_ClampedActivationKeptBufferDecayed ==
    [][lastOp' = "update" =>
          \A n \in NodeNames :
             clamped'[n] =>
                /\ activation'[n] = activation[n]
                /\ spread_buffer'[n] =
                      buffer[n]
                      - (activation[n] * (100 - conceptual_depth[n])) \div 100
                      + spread_activation(activation, NodeOrder, n)
                /\ buffer'[n] = 0]_netVars

\* an update that left a clamped node with a buffer below 0 after the decay
\* and spread loops, with its activation as it was
C20_Witness ==
    /\ lastOp = "update"
    /\ \E n \in NodeNames :
          /\ clamped[n]
          /\ spread_buffer[n] < 0
          /\ activation[n] = old_activation[n]
          /\ buffer[n] = 0

\* C28: a node whose buffer is 100 when an update begins (set between ticks
\* by build_descriptions or activateDescriptions) has activation exactly 100
\* when that update returns, whatever its activation before, its conceptual
\* depth, its clamped flag and the activity of its neighbours.
C28_BufferOf100GivesFullActivation ==
    [][lastOp' = "update" =>
          \A n \in NodeNames :
             buffer[n] = 100 * FP => activation'[n] = 100 * FP]_netVars

\* the buffer node n had when the last update began, from its buffer after
\* the spread loop, its decay and what was spread to it
buffer_before_update(n) ==
    spread_buffer[n]
    + (old_activation[n] * (100 - conceptual_depth[n])) \div 100
    - spread_activation(old_activation, NodeOrder, n)

\* an update that began with a buffer of 100 on an unclamped node whose
\* activation was strictly between 0 and 100, and left it at 100, while a
\* clamped node also began it with a buffer of 100
C28_Witness ==
    /\ lastOp = "update"
    /\ \E n \in NodeNames :
          /\ ~clamped[n]
          /\ old_activation[n] > 0 /\ old_activation[n] < 100 * FP
          /\ buffer_before_update(n) = 100 * FP
          /\ activation[n] = 100 * FP
    /\ \E n \in NodeNames :
          /\ clamped[n]
          /\ buffer_before_update(n) = 100 * FP
          /\ activation[n] = 100 * FP

(***************************************************************************)
(* Actions of the workspace.                                               *)
(***************************************************************************)
\* the workspace, with the buffers of the network, as one value
TheWorkspace ==
    Workspace(objects, structures, string_objects, group, descriptions,
              correspondence, leftBond, rightBond, buffer)

\* the workspace and the buffers become those of ws
WorkspaceBecomes(ws) ==
    /\ objects' = ws.objects
    /\ structures' = ws.structures
    /\ string_objects' = ws.string_objects
    /\ group' = ws.group
    /\ descriptions' = ws.descriptions
    /\ correspondence' = ws.correspondence
    /\ leftBond' = ws.leftBond
    /\ rightBond' = ws.rightBond
    /\ buffer' = ws.buffer

\* the workspace after its string is made
WsInit ==
    /\ SlipnetInit
    /\ WorkspaceIs(WorkspaceString([n \in NodeNames |-> 0]))
    /\ StrengthInit
    /\ ValueInit
    /\ RuleInit
    /\ FunctionInit

\* what the group builder has established when it calls buildGroup: the
\* group is a new object, its objects are in the workspace and belong to no
\* group (the incompatible groups were broken)
CanBuildGroup(ws, g) ==
    /\ g \notin Range(ws.objects)
    /\ \A o \in Range(objectList(g)) :
          o \in Range(ws.objects) /\ ws.group[o] = NoObject

\* Group(...) followed by Group.buildGroup
BuildGroup ==
    \E g \in GroupIds : \E heads \in LengthCoin(g) :
       /\ BuiltCount(structures) < MaxBuilt
       /\ CanBuildGroup(TheWorkspace, g)
       /\ \E made \in {new_group(TheWorkspace, g, heads)} :
          \E ws \in {buildGroup(made, g)} :
             WorkspaceBecomes(ws)
       /\ call' = [op |-> "buildGroup", self |-> g, outcome |-> "returned"]
       /\ UNCHANGED <<netRest, strengthVars, functionVars, valueVars,
                      ruleVars>>

\* Group.breakGroup on a group of the workspace
BreakGroup ==
    \E g \in GroupIds :
       /\ g \in Range(objects)
       /\ \E ws \in {breakGroup(TheWorkspace, g)} : WorkspaceBecomes(ws)
       /\ call' = [op |-> "breakGroup", self |-> g, outcome |-> "returned"]
       /\ UNCHANGED <<netRest, strengthVars, functionVars, valueVars,
                      ruleVars>>

\* Bond.buildBond between a group and a neighbouring object that have no bond
\* on that side (the bonds between letters are not modelled: no operation on
\* a group touches them)
BuildBond ==
    \E a \in Range(objects), b \in Range(objects) :
       /\ BuiltCount(structures) < MaxBuilt
       /\ a \in GroupIds \/ b \in GroupIds
       /\ rightIndex(a) + 1 = leftIndex(b)
       /\ rightBond[a] = NoStructure
       /\ leftBond[b] = NoStructure
       /\ structures' = structures \o << BondStructure(a, b) >>
       /\ rightBond' = [rightBond EXCEPT ![a] = BondStructure(a, b)]
       /\ leftBond' = [leftBond EXCEPT ![b] = BondStructure(a, b)]
       /\ call' = [op |-> "buildBond", self |-> a, outcome |-> "returned"]
       /\ UNCHANGED <<objects, string_objects, group, descriptions, correspondence,
                      netVars, strengthVars, functionVars, valueVars,
                      ruleVars>>

\* Correspondence.buildCorrespondence for a group without one
BuildCorrespondence ==
    \E o \in Range(objects) \cap GroupIds :
       /\ BuiltCount(structures) < MaxBuilt
       /\ correspondence[o] = NoStructure
       /\ structures' = structures \o << CorrespondenceStructure(o) >>
       /\ correspondence' = [correspondence EXCEPT ![o] = CorrespondenceStructure(o)]
       /\ call' = [op |-> "buildCorrespondence", self |-> o, outcome |-> "returned"]
       /\ UNCHANGED <<objects, string_objects, group, descriptions, leftBond,
                      rightBond, netVars, strengthVars, functionVars, valueVars,
                      ruleVars>>

WsNext == BuildGroup \/ BreakGroup \/ BuildBond \/ BuildCorrespondence

SpecWs == WsInit /\ [][WsNext]_vars

(***************************************************************************)
(* Properties of the workspace.                                            *)
(***************************************************************************)
\* C7: after Group.breakGroup() on a built group g returns, g is in none of
\* workspace.objects, workspace.structures and g.string.objects, and every
\* object of g.objectList has group = None; no post-state has g removed from
\* only some of them.
C7_BreakGroupRemovesEverywhere ==
    call.op = "breakGroup" =>
        /\ call.self \notin Range(objects)
        /\ GroupStructure(call.self) \notin Range(structures)
        /\ call.self \notin Range(string_objects)
        /\ \A o \in Range(objectList(call.self)) : group[o] = NoObject

\* a breakGroup that left another group, with its descriptions and a bond or
\* correspondence, in the workspace
C7_Witness ==
    /\ call.op = "breakGroup"
    /\ \E h \in GroupIds :
          /\ h \in Range(objects)
          /\ h \in Range(string_objects)
          /\ GroupStructure(h) \in Range(structures)
          /\ Len(descriptions[h]) > 0
          /\ \/ correspondence[h] # NoStructure
             \/ leftBond[h] # NoStructure
             \/ rightBond[h] # NoStructure

BuildsAreOpen == call.op # "breakGroup"

\* Group.breakGroup on a group of the workspace, statement by statement
BreakGroupInSteps ==
    \E g \in GroupIds :
       /\ g \in Range(objects)
       /\ \E steps \in {breakGroup_steps(TheWorkspace, << >>, g)} :
             /\ WorkspaceBecomes(After(TheWorkspace, steps))
             /\ call' = [op |-> "breakGroup", self |-> g, outcome |-> "returned",
                         steps |-> steps]
       /\ UNCHANGED <<netRest, strengthVars, functionVars, valueVars, ruleVars>>

CascadeNext ==
    \/ BuildsAreOpen /\ BuildGroup
    \/ BuildsAreOpen /\ BuildBond
    \/ BuildsAreOpen /\ BuildCorrespondence
    \/ BreakGroupInSteps

SpecCascade == WsInit /\ [][CascadeNext]_vars

\* the groups that hold g, directly or through another group
RECURSIVE Enclosing(_)
Enclosing(g) ==
    LET direct == {h \in GroupIds : g \in Range(objectList(h))}
    IN  direct \cup UNION {Enclosing(h) : h \in direct}

\* the place of the i-th statement of a breakGroup relative to group g: the
\* correspondence of g, the statements on the groups that enclose g, the
\* bonds of g, the descriptions of g, the removal of g
Phase(steps, i, g) ==
    IF steps[i].self # g THEN 2
    ELSE CASE steps[i].statement = "breakCorrespondence" -> 1
           [] steps[i].statement = "breakBond" -> 3
           [] steps[i].statement = "breakDescription" -> 4
           [] steps[i].statement = "remove" -> 5

\* the workspace before the i-th statement, given the one before the first
Before(ws, steps, i) == After(ws, SubSeq(steps, 1, i - 1))

\* C21: breakGroup on a group g cascades in order: the correspondence of g
\* is broken and the group that contains g is broken first, recursively, so
\* that every group enclosing g has left workspace.objects,
\* workspace.structures and the objects of the string; then the left and
\* right bonds of g are broken; only after that the descriptions of g are
\* removed, the group pointers of its objects cleared and g removed from the
\* collections.
C21_BreakGroupCascadesInOrder ==
    call.op = "breakGroup" =>
        /\ Len(call.steps) > 0
        /\ After(TheWorkspace, call.steps) = TheWorkspace
        /\ \A i \in 1..Len(call.steps) :
              LET x == call.steps[i].self
                  then == call.steps[i].after
              IN  /\ x \in {call.self} \cup Enclosing(call.self)
                  /\ \A j \in 1..Len(call.steps) :
                        (i < j /\ call.steps[j].self \in {x} \cup Enclosing(x))
                           => Phase(call.steps, i, x) <= Phase(call.steps, j, x)
                  /\ Phase(call.steps, i, x) >= 3 =>
                        /\ then.correspondence[x] = NoStructure
                        /\ then.group[x] = NoObject
                        /\ \A h \in Enclosing(x) :
                              /\ h \notin Range(then.objects)
                              /\ GroupStructure(h) \notin Range(then.structures)
                              /\ h \notin Range(then.string_objects)
                  /\ Phase(call.steps, i, x) >= 4 =>
                        /\ then.leftBond[x] = NoStructure
                        /\ then.rightBond[x] = NoStructure
                  /\ Phase(call.steps, i, x) = 5 =>
                        /\ then.descriptions[x] = << >>
                        /\ \A o \in Range(objectList(x)) : then.group[o] = NoObject
                        /\ x \notin Range(then.objects)
                        /\ GroupStructure(x) \notin Range(then.structures)
                        /\ x \notin Range(then.string_objects)

\* a breakGroup on a group with a bond inside another group
C21_Witness ==
    /\ call.op = "breakGroup"
    /\ \E i, j \in 1..Len(call.steps) :
          /\ call.steps[i].self # call.self
          /\ call.steps[j].self = call.self
          /\ call.steps[j].statement = "breakBond"

(***************************************************************************)
(* Actions on the strengths of structures.                                 *)
(***************************************************************************)
\* the strengths and the outcome of the last call as one value
TheStrengths ==
    Strengths(internal_strength, external_strength, total_strength, call.outcome)

\* the strengths become those of st
StrengthsBecome(st) ==
    /\ internal_strength' = st.internal_strength
    /\ external_strength' = st.external_strength
    /\ total_strength' = st.total_strength

\* a workspace that holds the bond and no string
StructureInit == NetInit

\* update_strength on the bond, as Workspace.update_everything calls it; the
\* bond's update_internal_strength and update_external_strength compute any
\* two strengths
BondUpdateStrength ==
    \E internal \in StrengthValues, external \in StrengthValues :
    \E st \in {update_strength(TheStrengths, TheBond, internal, external)} :
       /\ StrengthsBecome(st)
       /\ call' = [op |-> "update_strength", self |-> TheBond, outcome |-> st.outcome]
       /\ UNCHANGED <<functionVars, valueVars, ruleVars, netVars, wsVars, internalStrength, externalStrength>>

StructureNext == BondUpdateStrength

SpecStructure == StructureInit /\ [][StructureNext]_vars

\* C8: update_strength() updates the internal strength, then the external
\* strength, then sets total_strength to the weighted average of internal
\* (weight internal) and external (weight 100 - internal) computed in that
\* same call: (internal*internal + external*(100 - internal)) / 100.
C8_TotalStrengthIsSelfWeighted ==
    (call.op = "update_strength" /\ call.self = TheBond) =>
        /\ call.outcome = "returned"
        /\ total_strength[TheBond] =
              (internal_strength[TheBond] * internal_strength[TheBond]
               + external_strength[TheBond] * (100 * FP - internal_strength[TheBond]))
              \div (100 * FP)

\* an update_strength whose internal and external strengths differ and lie
\* strictly inside the range, with the total strictly between them
C8_Witness ==
    /\ call.op = "update_strength"
    /\ call.self = TheBond
    /\ internal_strength[TheBond] \in 1..(100 * FP - 1)
    /\ external_strength[TheBond] \in 1..(internal_strength[TheBond] - 1)
    /\ total_strength[TheBond] > external_strength[TheBond]
    /\ total_strength[TheBond] < internal_strength[TheBond]

(***************************************************************************)
(* Actions on the strengths of groups.                                     *)
(***************************************************************************)
RECURSIVE build_groups(_, _, _)
\* Group(...) and Group.buildGroup for the first k groups of a list, the coin
\* of the length description coming up tails
build_groups(ws, gs, k) ==
    IF k = 0 THEN ws
    ELSE Only({ buildGroup(made, gs[k]) :
                made \in { new_group(w, gs[k], FALSE) :
                w \in { build_groups(ws, gs, k - 1) } } })

\* the groups the workspace holds when the strengths are updated: the
\* sameness groups of the letters, or the successor group of the first two
\* letters inside the successor group that spans the string
GroupLists ==
    { [i \in 1..StringLength |-> StringLength + i],
      << 2 * StringLength + 1, 2 * StringLength + 2 >> }

\* the workspace after its string is made and the groups of a list are built
GroupInit ==
    /\ SlipnetInit
    /\ \E gs \in GroupLists :
          WorkspaceIs(build_groups(WorkspaceString([n \in NodeNames |-> 0]),
                                   gs, Len(gs)))
    /\ StrengthInit
    /\ ValueInit
    /\ RuleInit
    /\ FunctionInit

\* update_strength on a group, as Workspace.update_everything calls it for
\* every structure; Group overrides neither update_internal_strength nor
\* update_external_strength, so no class of its own computes a strength
GroupUpdateStrength ==
    \E g \in GroupIds :
       /\ GroupStructure(g) \in Range(structures)
       /\ \E st \in {update_strength(TheStrengths, g, NoFloat, NoFloat)} :
             /\ StrengthsBecome(st)
             /\ call' = [op |-> "update_strength", self |-> g, outcome |-> st.outcome]
       /\ UNCHANGED <<functionVars, valueVars, ruleVars, netVars, wsVars, internalStrength, externalStrength>>

\* Group.updateInternalStrength
GroupUpdateInternalStrength ==
    \E g \in GroupIds :
       /\ GroupStructure(g) \in Range(structures)
       /\ internalStrength' =
             [internalStrength EXCEPT ![g] = updateInternalStrength(g, activation)]
       /\ call' = [op |-> "updateInternalStrength", self |-> g, outcome |-> "returned"]
       /\ UNCHANGED <<functionVars, valueVars, ruleVars, netVars, wsVars, internal_strength, external_strength,
                      total_strength, externalStrength>>

\* Group.updateExternalStrength
GroupUpdateExternalStrength ==
    \E g \in GroupIds :
       /\ GroupStructure(g) \in Range(structures)
       /\ externalStrength' =
             [externalStrength EXCEPT ![g] = updateExternalStrength(string_objects, g)]
       /\ call' = [op |-> "updateExternalStrength", self |-> g, outcome |-> "returned"]
       /\ UNCHANGED <<functionVars, valueVars, ruleVars, netVars, wsVars, internal_strength, external_strength,
                      total_strength, internalStrength>>

\* WorkspaceStructure.update_total_strength on a group
GroupUpdateTotalStrength ==
    \E g \in GroupIds :
       /\ GroupStructure(g) \in Range(structures)
       /\ \E st \in {update_total_strength(TheStrengths, g)} : StrengthsBecome(st)
       /\ call' = [op |-> "update_total_strength", self |-> g, outcome |-> "returned"]
       /\ UNCHANGED <<functionVars, valueVars, ruleVars, netVars, wsVars, internalStrength, externalStrength>>

GroupNext ==
    \/ GroupUpdateStrength
    \/ GroupUpdateInternalStrength
    \/ GroupUpdateExternalStrength
    \/ GroupUpdateTotalStrength

SpecGroup == GroupInit /\ [][GroupNext]_vars

\* C9: after a strength update of a Group in any workspace state, its
\* internal strength, external strength and total strength each lie in
\* [0, 100].
C9_GroupStrengthsInRange ==
    \A g \in GroupIds :
       /\ internalStrength[g] # NoFloat => internalStrength[g] \in 0..(100 * FP)
       /\ externalStrength[g] # NoFloat => externalStrength[g] \in 0..(100 * FP)
       /\ internal_strength[g] \in 0..(100 * FP)
       /\ external_strength[g] \in 0..(100 * FP)
       /\ total_strength[g] \in 0..(100 * FP)

\* C10: update_strength() on a Group that is in workspace.structures
\* completes without an error and leaves the internal strength set by the
\* group formula, the external strength at 100 if the group spans the string
\* and at the local support otherwise, and total_strength recombined from
\* those two.
C10_GroupImplementsContract ==
    (call.op = "update_strength" /\ call.self \in GroupIds) =>
        /\ call.outcome = "returned"
        /\ internal_strength[call.self] = updateInternalStrength(call.self, activation)
        /\ external_strength[call.self]
              = updateExternalStrength(string_objects, call.self)
        /\ total_strength[call.self] =
              weighted_average(
                  << << internal_strength[call.self], internal_strength[call.self] >>,
                     << external_strength[call.self],
                        100 * FP - internal_strength[call.self] >> >>)

(***************************************************************************)
(* The rule of the workspace.  Workspace.structures and Workspace.rule are *)
(* the state of the methods; an outcome other than "returned" is the       *)
(* exception the method ends with.                                         *)
(***************************************************************************)
\* the rules build_rule is called with
Rules == {RuleStructure(r) : r \in 1..MaxRules}

RuleState(structs, current, outcome) ==
    [structures |-> structs, rule |-> current, outcome |-> outcome]

\* a faulty build_rule: the rule it replaces stays in Workspace.structures
build_rule_keeping_old(structs, current, r) ==
    RuleState(structs \o << r >>, r, "returned")

\* Workspace.build_rule(rule), without rule.activateRuleDescriptions()
build_rule(structs, current, r) ==
    IF current # NoStructure /\ current \notin Range(structs)
    THEN RuleState(structs, current, "ValueError")
    ELSE RuleState((IF current # NoStructure THEN Remove(structs, current)
                    ELSE structs) \o << r >>,
                   r, "returned")

\* Workspace.break_rule
break_rule(structs, current) ==
    IF current # NoStructure /\ current \notin Range(structs)
    THEN RuleState(structs, current, "ValueError")
    ELSE RuleState(IF current # NoStructure THEN Remove(structs, current)
                   ELSE structs,
                   NoStructure, "returned")

\* the values of the objects become those WorkspaceObject.__init__ gives
NewValues ==
    /\ rawImportance' = [o \in ObjectIds |-> 0]
    /\ relativeImportance' = [o \in ObjectIds |-> 0]
    /\ intraStringUnhappiness' = [o \in ObjectIds |-> 0]
    /\ interStringUnhappiness' = [o \in ObjectIds |-> 0]
    /\ totalUnhappiness' = [o \in ObjectIds |-> 0]
    /\ intraStringSalience' = [o \in ObjectIds |-> 0]
    /\ interStringSalience' = [o \in ObjectIds |-> 0]
    /\ totalSalience' = [o \in ObjectIds |-> 0]
    /\ intra_string_unhappiness' = 0

\* Workspace.build_rule
BuildRule ==
    \E r \in Rules :
       /\ Len(built_rules) < MaxRuleBuilds
       /\ \E st \in {build_rule(structures, rule, r)} :
             /\ structures' = st.structures
             /\ rule' = st.rule
             /\ call' = [op |-> "build_rule", self |-> r, outcome |-> st.outcome]
       /\ built_rules' = Append(built_rules, r)
       /\ UNCHANGED <<objects, string_objects, group, descriptions, correspondence,
                      leftBond, rightBond, netVars, strengthVars, functionVars,
                      valueVars>>

\* Workspace.break_rule
BreakRule ==
    /\ \E st \in {break_rule(structures, rule)} :
          /\ structures' = st.structures
          /\ rule' = st.rule
          /\ call' = [op |-> "break_rule", self |-> rule, outcome |-> st.outcome]
    /\ UNCHANGED <<objects, string_objects, group, descriptions, correspondence,
                   leftBond, rightBond, netVars, strengthVars, functionVars,
                   valueVars, built_rules>>

\* Workspace.reset: no rule, and the objects and structures are those of the
\* new string
WorkspaceReset ==
    /\ WorkspaceBecomes(WorkspaceString(buffer))
    /\ rule' = NoStructure
    /\ NewValues
    /\ call' = [op |-> "reset", self |-> NoStructure, outcome |-> "returned"]
    /\ UNCHANGED <<netRest, strengthVars, functionVars, built_rules>>

RuleNext == BuildRule \/ BreakRule \/ WorkspaceReset

SpecRule == WsInit /\ [][RuleNext]_vars

\* the places of Workspace.structures that hold a rule
RulePlaces == {i \in 1..Len(structures) : structures[i][1] = "rule"}

\* Workspace.rule is None and no rule is in Workspace.structures, or it is
\* the rule of the last build_rule and the one rule in Workspace.structures
OneRule ==
    \/ rule = NoStructure /\ RulePlaces = {}
    \/ /\ rule # NoStructure
       /\ Len(built_rules) > 0
       /\ rule = built_rules[Len(built_rules)]
       /\ Cardinality(RulePlaces) = 1
       /\ \A i \in RulePlaces : structures[i] = rule

\* C30: after any sequence of Workspace.reset(), build_rule(r) and
\* break_rule(), Workspace.rule is None and no rule is in
\* Workspace.structures, or it is the rule built last, which is once in
\* Workspace.structures, no rule built before being there; break_rule()
\* without a current rule changes nothing and raises nothing.
C30_OneRuleAndBreakWithoutRuleIsNoOp ==
    /\ []OneRule
    /\ [][(call'.op = "break_rule" /\ call'.self = NoStructure) =>
             /\ call'.outcome = "returned"
             /\ UNCHANGED <<netVars, wsVars, strengthVars, functionVars,
                            valueVars, ruleVars>>]_vars

\* break_rule without a current rule, after a rule replaced another one that
\* had replaced it
C30_Witness ==
    /\ call.op = "break_rule"
    /\ call.self = NoStructure
    /\ call.outcome = "returned"
    /\ Len(built_rules) >= 3
    /\ built_rules[1] # built_rules[2]
    /\ built_rules[1] = built_rules[3]

(***************************************************************************)
(* The values of the objects.  The workspace has its string, the groups   *)
(* built over it and no bond or correspondence, and the network runs its   *)
(* first updates.                                                          *)
(***************************************************************************)
\* the values of the objects and of their string as one value
Values(raw, relative, intraU, interU, totalU, intraS, interS, totalS, stringU) ==
    [rawImportance |-> raw, relativeImportance |-> relative,
     intraStringUnhappiness |-> intraU, interStringUnhappiness |-> interU,
     totalUnhappiness |-> totalU, intraStringSalience |-> intraS,
     interStringSalience |-> interS, totalSalience |-> totalS,
     intra_string_unhappiness |-> stringU, outcome |-> "returned"]

RECURSIVE calculateRawImportance_sum(_, _, _)
\* the loop of WorkspaceObject.__calculateRawImportance over the first k
\* descriptions ds, a being the activations of the nodes
calculateRawImportance_sum(ds, a, k) ==
    IF k = 0 THEN 0
    ELSE calculateRawImportance_sum(ds, a, k - 1)
         + (IF fully_active(a[ds[k].descriptionType])
            THEN a[ds[k].descriptor]
            ELSE a[ds[k].descriptor] \div 20)

\* WorkspaceObject.__calculateRawImportance
calculateRawImportance(ds, a, grouped, changed) ==
    LET result == calculateRawImportance_sum(ds, a, Len(ds))
        in_group == IF grouped THEN (result * 2) \div 3 ELSE result
    IN  IF changed THEN in_group * 2 ELSE in_group

\* WorkspaceObject.__calculateIntraStringHappiness, bondStrength being the sum
\* of the total strengths of the bonds of the object
calculateIntraStringHappiness(ws, total, o, bondStrength) ==
    IF spansString(o) THEN 100 * FP
    ELSE IF ws.group[o] # NoObject THEN total[ws.group[o]]
    ELSE bondStrength \div 6

\* WorkspaceObject.updateValue on object o: total are the total strengths of
\* the structures, a the activations of the nodes.  No bond and no
\* correspondence is built, and changed is False as __init__ left it.
updateValue(v, ws, total, a, o) ==
    LET intraStringHappiness == calculateIntraStringHappiness(ws, total, o, 0)
        interStringHappiness == 0
        intraU == 100 * FP - intraStringHappiness
        interU == 100 * FP - interStringHappiness
        intraS == weighted_average(<< << v.relativeImportance[o], (2 * FP) \div 10 >>,
                                      << intraU, (8 * FP) \div 10 >> >>)
        interS == weighted_average(<< << v.relativeImportance[o], (8 * FP) \div 10 >>,
                                      << interU, (2 * FP) \div 10 >> >>)
    IN  [v EXCEPT
           !.rawImportance[o] =
               calculateRawImportance(ws.descriptions[o], a,
                                      ws.group[o] # NoObject, FALSE),
           !.intraStringUnhappiness[o] = intraU,
           !.interStringUnhappiness[o] = interU,
           !.totalUnhappiness[o] =
               100 * FP - (intraStringHappiness + interStringHappiness) \div 2,
           !.intraStringSalience[o] = intraS,
           !.interStringSalience[o] = interS,
           !.totalSalience[o] = (intraS + interS) \div 2]

RECURSIVE updateValues(_, _, _, _, _)
\* "for obj in self.objects: obj.updateValue()" over the first k objects
updateValues(v, ws, total, a, k) ==
    IF k = 0 THEN v
    ELSE updateValue(Only({updateValues(v, ws, total, a, k - 1)}),
                     ws, total, a, ws.objects[k])

RECURSIVE Sum(_, _, _)
\* sum(objekt.field for objekt in objects) over the first k objects
Sum(field, objs, k) ==
    IF k = 0 THEN 0 ELSE Sum(field, objs, k - 1) + field[objs[k]]

\* WorkspaceString.update_relative_importance: a relative importance of 1.0
\* is FP
update_relative_importance(v, ws) ==
    LET total == Sum(v.rawImportance, ws.string_objects, Len(ws.string_objects))
    IN  [v EXCEPT
           !.relativeImportance =
               [o \in ObjectIds |->
                  IF o \notin Range(ws.string_objects) THEN @[o]
                  ELSE IF total = 0 THEN 0
                  ELSE (v.rawImportance[o] * FP) \div total]]

\* WorkspaceString.update_intra_string_unhappiness
update_intra_string_unhappiness(v, ws) ==
    [v EXCEPT
       !.intra_string_unhappiness =
           IF Len(ws.string_objects) = 0 THEN 0
           ELSE Sum(v.intraStringUnhappiness, ws.string_objects,
                    Len(ws.string_objects)) \div Len(ws.string_objects)]

\* the structures of Workspace.structures whose update_strength ends in an
\* error: st are the strengths of the structures.  A description is of a
\* class that implements its methods.
FailingStructures(ws, st) ==
    {i \in 1..Len(ws.structures) :
        /\ ws.structures[i][1] = "group"
        /\ update_strength(st, ws.structures[i][2], NoFloat, NoFloat).outcome
              # "returned"}

\* Workspace.update_everything: the strengths of the structures, the values
\* of the objects, then the relative importances and the unhappiness of the
\* string
update_everything(v, ws, st, a) ==
    IF FailingStructures(ws, st) # {}
    THEN [v EXCEPT !.outcome = "NotImplementedError"]
    ELSE Only({ update_intra_string_unhappiness(v2, ws) :
                v2 \in { update_relative_importance(v1, ws) :
                v1 \in { updateValues(v, ws, st.total_strength, a,
                                      Len(ws.objects)) } } })

\* the values of the objects as one value
TheValues ==
    Values(rawImportance, relativeImportance, intraStringUnhappiness,
           interStringUnhappiness, totalUnhappiness, intraStringSalience,
           interStringSalience, totalSalience, intra_string_unhappiness)

\* the values become those of v
ValuesBecome(v) ==
    /\ rawImportance' = v.rawImportance
    /\ relativeImportance' = v.relativeImportance
    /\ intraStringUnhappiness' = v.intraStringUnhappiness
    /\ interStringUnhappiness' = v.interStringUnhappiness
    /\ totalUnhappiness' = v.totalUnhappiness
    /\ intraStringSalience' = v.intraStringSalience
    /\ interStringSalience' = v.interStringSalience
    /\ totalSalience' = v.totalSalience
    /\ intra_string_unhappiness' = v.intra_string_unhappiness

\* Workspace.update_everything
UpdateEverything ==
    /\ \E v \in {update_everything(TheValues, TheWorkspace, TheStrengths,
                                    activation)} :
          /\ ValuesBecome(v)
          /\ call' = [op |-> "update_everything", self |-> NoObject,
                      outcome |-> v.outcome]
    /\ UNCHANGED <<netVars, wsVars, strengthVars, functionVars, ruleVars>>

\* Slipnet.update, for the first updates of a run
Tick ==
    /\ number_of_updates < MaxTicks
    /\ Update

\* Group(...) followed by Group.buildGroup, before the network runs
BuildFirstGroup ==
    /\ number_of_updates = 0
    /\ BuiltCount(structures) < MaxGroups
    /\ BuildGroup

ValuesNext == Tick \/ UpdateEverything \/ BuildFirstGroup \/ BreakGroup

SpecValues == WsInit /\ [][ValuesNext]_vars

\* C25: after Workspace.update_everything() returns, every object of
\* Workspace.objects that is in the initial or the target string has
\* intraStringSalience = 0.2 * relativeImportance + 0.8 *
\* intraStringUnhappiness and interStringSalience = 0.8 * relativeImportance
\* + 0.2 * interStringUnhappiness, relativeImportance being the value the
\* object holds after the call.
C25_SaliencesBlendRelativeImportanceHeld ==
    (call.op = "update_everything" /\ call.outcome = "returned") =>
        \A o \in Range(objects) \cap Range(string_objects) :
           /\ intraStringSalience[o] =
                 weighted_average(<< << relativeImportance[o], (2 * FP) \div 10 >>,
                                     << intraStringUnhappiness[o],
                                        (8 * FP) \div 10 >> >>)
           /\ interStringSalience[o] =
                 weighted_average(<< << relativeImportance[o], (8 * FP) \div 10 >>,
                                     << interStringUnhappiness[o],
                                        (2 * FP) \div 10 >> >>)

(***************************************************************************)
(* Calls of the functions of group.py, conceptMapping.py, sliplink.py,     *)
(* randomness.py and formulas.py.  A behaviour begins with the arguments   *)
(* of one call, drawn from a bounded set, and its one step is the call:    *)
(* args holds the function and its arguments (pending until the call is    *)
(* made) and returned what it returned.                                    *)
(***************************************************************************)
\* Slipnode.lateral_slip_links, as indices into sliplinks
lateral_slip_links ==
    [n \in NodeNames |->
        SelectSeq(outgoing_links[n], LAMBDA i : sliplinks[i].kind = "slip")]

\* Sliplink.degree_of_association of link l when its label node, if it has
\* one, has activation a
link_degree_of_association(l, a) ==
    IF l.fixed_length > 0 \/ l.label = None THEN 100 * FP - l.fixed_length * FP
    ELSE degree_of_association(l.label, a)

\* the slip links of initialDescriptor whose destination is targetDescriptor,
\* in the order of lateral_slip_links
slip_links_to(initialDescriptor, targetDescriptor) ==
    LET links == lateral_slip_links[initialDescriptor]
        found == SelectSeq(links, LAMBDA i : sliplinks[i].destination = targetDescriptor)
    IN  [j \in 1..Len(found) |-> sliplinks[found[j]]]

\* a faulty __degreeOfAssociation: identical descriptors are looked up among
\* the slip links like any other pair
degreeOfAssociation_by_links_only(initialDescriptor, targetDescriptor, links, a) ==
    IF links = << >> THEN 0 ELSE link_degree_of_association(Head(links), a)

\* ConceptMapping.__degreeOfAssociation; links are the slip links from the
\* initial descriptor to the target descriptor and a is the activation of
\* the label node of the first
degreeOfAssociation(initialDescriptor, targetDescriptor, links, a) ==
    IF initialDescriptor = targetDescriptor THEN 100 * FP
    ELSE IF links = << >> THEN 0
    ELSE link_degree_of_association(Head(links), a)

\* ConceptMapping.__conceptualDepth
conceptualDepth(initialDescriptor, targetDescriptor) ==
    ((conceptual_depth[initialDescriptor] + conceptual_depth[targetDescriptor]) * FP)
    \div 2

\* depth * depth for depth = conceptualDepth / 100.0
depth_squared(initialDescriptor, targetDescriptor) ==
    LET depth == conceptualDepth(initialDescriptor, targetDescriptor) \div 100
    IN  (depth * depth) \div FP

\* ConceptMapping.slippability
slippability(initialDescriptor, targetDescriptor, links, a) ==
    LET association == degreeOfAssociation(initialDescriptor, targetDescriptor, links, a)
    IN  IF association = 100 * FP THEN 100 * FP
        ELSE (association * (FP - depth_squared(initialDescriptor, targetDescriptor)))
             \div FP

\* ConceptMapping.strength
strength(initialDescriptor, targetDescriptor, links, a) ==
    LET association == degreeOfAssociation(initialDescriptor, targetDescriptor, links, a)
    IN  IF association = 100 * FP THEN 100 * FP
        ELSE (association * (FP + depth_squared(initialDescriptor, targetDescriptor)))
             \div FP

\* the descriptor pairs of the mappings that are made: every node with
\* itself, the two ends of every slip link, two nodes no link joins, and
\* two neighbouring letters either way
DescriptorPairs ==
    {<< n, n >> : n \in NodeNames}
    \cup {<< l.source, l.destination >> :
             l \in {sliplinks[j] : j \in 1..Len(sliplinks)} \cap
                   [source : NodeNames, destination : NodeNames,
                    label : NodeNames \cup {None}, fixed_length : 0..100,
                    kind : {"slip"}]}
    \cup {<< "leftmost", "whole" >>}
    \cup {<< letters[1], letters[2] >>, << letters[2], letters[1] >>}

\* Slipnode.get_bond_category
get_bond_category(self, destination) ==
    IF self = destination THEN "identity"
    ELSE LET found == SelectSeq(outgoing_links[self],
                                LAMBDA i : sliplinks[i].destination = destination)
         IN  IF found = << >> THEN None ELSE sliplinks[Head(found)].label

\* ConceptMapping.__init__; id tells the object from every other mapping
ConceptMapping(id, initialDescriptionType, targetDescriptionType, initialDescriptor, targetDescriptor, initialObject, targetObject) ==
    [id |-> id,
     initialDescriptionType |-> initialDescriptionType,
     targetDescriptionType |-> targetDescriptionType,
     initialDescriptor |-> initialDescriptor,
     targetDescriptor |-> targetDescriptor,
     initialObject |-> initialObject,
     targetObject |-> targetObject,
     label |-> get_bond_category(initialDescriptor, targetDescriptor)]

\* ConceptMapping.slippage
slippage(self) == self.label \notin {"sameness", "identity"}

\* a faulty symmetricVersion: a new mapping is constructed in every case
symmetricVersion_always_new(self, id) ==
    ConceptMapping(id, self.targetDescriptionType, self.initialDescriptionType,
                   self.targetDescriptor, self.initialDescriptor,
                   self.initialObject, self.targetObject)

\* ConceptMapping.symmetricVersion; id is the identity of the mapping it
\* constructs, if it constructs one
symmetricVersion(self, id) ==
    IF ~slippage(self) THEN self
    ELSE IF get_bond_category(self.targetDescriptor, self.initialDescriptor) = self.label
    THEN self
    ELSE ConceptMapping(id, self.targetDescriptionType, self.initialDescriptionType,
                        self.targetDescriptor, self.initialDescriptor,
                        self.initialObject, self.targetObject)

\* what a call leaves alone
notFunction == <<netVars, wsVars, strengthVars, call, valueVars, ruleVars>>

\* the activations a node is given in a call: none, some, full
Activations == {0, 50 * FP, 100 * FP}

\* the group categories of the network
GroupCategories == {"samenessGroup", "successorGroup", "predecessorGroup"}

\* the calls of Group.updateInternalStrength
UpdateInternalStrengthCalls ==
    [function : {"updateInternalStrength"}, groupCategory : GroupCategories,
     activation : Activations, length : 1..MaxLength, pending : {TRUE}]

\* the calls of method function of a ConceptMapping
MappingCalls(function) ==
    {[function |-> function, initialDescriptor |-> pair[1],
      targetDescriptor |-> pair[2], activation |-> a, pending |-> TRUE] :
        pair \in DescriptorPairs, a \in Activations}

\* Slipnode.linked: some outgoing link of self points at other
linked(self, other) ==
    SelectSeq(outgoing_links[self], LAMBDA i : sliplinks[i].destination = other) # << >>

\* Slipnode.related
related(self, other) == self = other \/ linked(self, other)

\* a faulty sameDescriptors: the target descriptors are not looked at
sameDescriptors_initial_only(self, other) ==
    self.initialDescriptor = other.initialDescriptor

\* ConceptMapping.sameDescriptors
sameDescriptors(self, other) ==
    IF self.initialDescriptor = other.initialDescriptor
    THEN self.targetDescriptor = other.targetDescriptor
    ELSE FALSE

\* a faulty related: the initial descriptors are not looked at
mappings_related_by_target(self, other) ==
    self.targetDescriptor = other.targetDescriptor

\* ConceptMapping.related: the initial descriptors are related, or else the
\* target descriptors are
mappings_related(self, other) ==
    \E pair \in {<< self.initialDescriptor, other.initialDescriptor >>,
                  << self.targetDescriptor, other.targetDescriptor >>} :
       related(pair[1], pair[2])

\* ConceptMapping.incompatible
incompatible(self, other) ==
    IF ~mappings_related(self, other) THEN FALSE
    ELSE IF self.label = None \/ other.label = None THEN FALSE
    ELSE self.label # other.label

\* ConceptMapping.supports
supports(self, other) ==
    IF sameDescriptors(self, other) THEN TRUE
    ELSE IF ~mappings_related(self, other) THEN FALSE
    ELSE IF self.label = None \/ other.label = None THEN FALSE
    ELSE self.label = other.label

\* the mappings the constructor makes for the descriptor pairs, between
\* object 1 and object 2
ConstructedMappings ==
    {ConceptMapping(1, "stringPositionCategory", "stringPositionCategory",
                    pair[1], pair[2], 1, 2) : pair \in DescriptorPairs}

\* the calls of method function of one ConceptMapping on another
TwoMappingCalls(function) ==
    [function : {function}, self : ConstructedMappings, other : ConstructedMappings,
     pending : {TRUE}]

\* the mappings symmetricVersion is called on: mapping 1, constructed for a
\* descriptor pair between object 1 and object 2, with the label the
\* constructor gave it or the sameness node as its label
Mappings ==
    UNION {{mapping, [mapping EXCEPT !.label = "sameness"]} :
             mapping \in {ConceptMapping(1, descriptionType, descriptionType,
                                         pair[1], pair[2], 1, 2) :
                              pair \in DescriptorPairs,
                              descriptionType \in {"letterCategory",
                                                   "stringPositionCategory"}}}

\* the calls of ConceptMapping.symmetricVersion
SymmetricVersionCalls ==
    {[function |-> "symmetricVersion", self |-> mapping, pending |-> TRUE] :
        mapping \in Mappings}

\* randomness.accumulate: the running totals of the values
accumulate(iterable) ==
    [i \in 1..Len(iterable) |-> SumUpTo(iterable, i)]

\* a faulty search: bisect.bisect_right, the index after the entries equal
\* to x
RECURSIVE bisect_right(_, _, _, _, _)
bisect_right(a, x_numerator, x_denominator, lo, hi) ==
    IF lo >= hi THEN lo
    ELSE LET mid == (lo + hi) \div 2
         IN  IF x_numerator < a[mid + 1] * x_denominator
             THEN bisect_right(a, x_numerator, x_denominator, lo, mid)
             ELSE bisect_right(a, x_numerator, x_denominator, mid + 1, hi)

\* bisect.bisect_left(a, x, lo, hi) for x = x_numerator / x_denominator: the
\* index (from 0) of the first entry of the sorted list a that is >= x
RECURSIVE bisect_left(_, _, _, _, _)
bisect_left(a, x_numerator, x_denominator, lo, hi) ==
    IF lo >= hi THEN lo
    ELSE LET mid == (lo + hi) \div 2
         IN  IF a[mid + 1] * x_denominator < x_numerator
             THEN bisect_left(a, x_numerator, x_denominator, mid + 1, hi)
             ELSE bisect_left(a, x_numerator, x_denominator, lo, mid)

\* Randomness.weighted_choice when rng.random() draws random / RandomSteps:
\* what it returns, or the exception it raises
weighted_choice(seq, weights, random) ==
    IF seq = << >> THEN [raised |-> None, value |-> None]
    ELSE LET cum_weights == accumulate(weights)
             total == cum_weights[Len(cum_weights)]
             index == bisect_left(cum_weights, random * total, RandomSteps,
                                  0, Len(cum_weights))
         IN  IF index < Len(seq) THEN [raised |-> None, value |-> seq[index + 1]]
             ELSE [raised |-> "IndexError", value |-> None]

\* the candidates weighted_choice chooses from
Candidates == << "first", "second", "third", "fourth", "fifth" >>

\* the calls of Randomness.weighted_choice: up to MaxChoices candidates, one
\* weight each, and every draw of the random source
WeightedChoiceCalls ==
    UNION {[function : {"weighted_choice"}, seq : {SubSeq(Candidates, 1, n)},
            weights : [1..n -> 0..MaxWeight], random : 0..(RandomSteps - 1),
            pending : {TRUE}] : n \in 0..MaxChoices}

\* the calls of formulas.weighted_average: up to MaxValues pairs of a value
\* 0, 10 or 20 and a weight -1..MaxWeight
WeightedAverageCalls ==
    UNION {[function : {"weighted_average"},
            values : [1..n -> {0, 10 * FP, 20 * FP} \X (-1..MaxWeight)],
            pending : {TRUE}] : n \in 0..MaxValues}

\* the calls of Sliplink.degree_of_association: every link of the network,
\* with its label node, if it has one, at every activation
LinkDegreeOfAssociationCalls ==
    {[function |-> "degree_of_association", link |-> sliplinks[i],
      activation |-> a, pending |-> TRUE] :
        i \in 1..Len(sliplinks), a \in Activations}

\* the calls of add_length_description_category
AddLengthDescriptionCategoryCalls ==
    UNION { { [function |-> "add_length_description_category", length |-> length,
               activation |-> a, adjusted |-> adjusted, random |-> random,
               pending |-> TRUE] :
              adjusted \in getAdjustedProbability(length_probability(length, a)),
              random \in 0..(RandomSteps - 1) } :
            length \in 1..MaxObjects, a \in Activations }

FunctionsInit ==
    /\ SlipnetInit
    /\ WorkspaceIs(EmptyWorkspace([n \in NodeNames |-> 0]))
    /\ StrengthInit
    /\ ValueInit
    /\ RuleInit
    /\ returned = None
    /\ \/ args \in UpdateInternalStrengthCalls
       \/ args \in AddLengthDescriptionCategoryCalls
       \/ args \in MappingCalls("slippability")
       \/ args \in MappingCalls("strength")
       \/ args \in SymmetricVersionCalls
       \/ args \in LinkDegreeOfAssociationCalls
       \/ args \in WeightedChoiceCalls
       \/ args \in WeightedAverageCalls

\* the call is made and returns value
Returns(value) ==
    /\ returned' = value
    /\ args' = [args EXCEPT !.pending = FALSE]
    /\ UNCHANGED notFunction

\* Group.updateInternalStrength
CallUpdateInternalStrength ==
    /\ args.pending
    /\ args.function = "updateInternalStrength"
    /\ Returns(updateInternalStrength_locals(args.groupCategory, args.activation,
                                             args.length))

\* ConceptMapping.slippability
CallSlippability ==
    /\ args.pending
    /\ args.function = "slippability"
    /\ \E links \in {slip_links_to(args.initialDescriptor, args.targetDescriptor)} :
          Returns(slippability(args.initialDescriptor, args.targetDescriptor,
                               links, args.activation))

\* ConceptMapping.strength
CallStrength ==
    /\ args.pending
    /\ args.function = "strength"
    /\ \E links \in {slip_links_to(args.initialDescriptor, args.targetDescriptor)} :
          Returns(strength(args.initialDescriptor, args.targetDescriptor,
                           links, args.activation))

\* ConceptMapping.symmetricVersion; a mapping it constructs is mapping 2
CallSymmetricVersion ==
    /\ args.pending
    /\ args.function = "symmetricVersion"
    /\ Returns(symmetricVersion(args.self, 2))

\* Sliplink.degree_of_association
CallLinkDegreeOfAssociation ==
    /\ args.pending
    /\ args.function = "degree_of_association"
    /\ Returns(link_degree_of_association(args.link, args.activation))

\* Randomness.weighted_choice
CallWeightedChoice ==
    /\ args.pending
    /\ args.function = "weighted_choice"
    /\ Returns(weighted_choice(args.seq, args.weights, args.random))

\* formulas.weighted_average
CallWeightedAverage ==
    /\ args.pending
    /\ args.function = "weighted_average"
    /\ Returns(weighted_average(args.values))

\* Group.add_length_description_category
CallAddLengthDescriptionCategory ==
    /\ args.pending
    /\ args.function = "add_length_description_category"
    /\ Returns(add_length_description_category(args.length, args.adjusted,
                                                args.random))

\* ConceptMapping.incompatible
CallIncompatible ==
    /\ args.pending
    /\ args.function = "incompatible"
    /\ Returns(incompatible(args.self, args.other))

\* ConceptMapping.supports
CallSupports ==
    /\ args.pending
    /\ args.function = "supports"
    /\ Returns(supports(args.self, args.other))

FunctionsNext ==
    \/ CallWeightedAverage
    \/ CallWeightedChoice
    \/ CallUpdateInternalStrength
    \/ CallSlippability
    \/ CallStrength
    \/ CallSymmetricVersion
    \/ CallLinkDegreeOfAssociation
    \/ CallAddLengthDescriptionCategory

SpecFunctions == FunctionsInit /\ [][FunctionsNext]_vars

\* the calls of one ConceptMapping on another
MappingsInit ==
    /\ SlipnetInit
    /\ WorkspaceIs(EmptyWorkspace([n \in NodeNames |-> 0]))
    /\ StrengthInit
    /\ ValueInit
    /\ RuleInit
    /\ returned = None
    /\ \/ args \in TwoMappingCalls("incompatible")
       \/ args \in TwoMappingCalls("supports")

MappingsNext ==
    \/ CallIncompatible
    \/ CallSupports

SpecMappings == MappingsInit /\ [][MappingsNext]_vars

(***************************************************************************)
(* Properties of the functions.                                            *)
(***************************************************************************)
\* C11: the length factor of Group.updateInternalStrength is 5 for one
\* child object, 20 for two, 60 for three and 90 for four or more, whatever
\* the group category, the bond category and the activations, and the
\* internal strength is the average of the bond association and that factor
\* weighted by bondWeight and 100 - bondWeight.
C11_LengthFactorByLengthOnly ==
    args.function = "updateInternalStrength" /\ ~args.pending =>
       LET factor == IF args.length = 1 THEN 5 * FP
                     ELSE IF args.length = 2 THEN 20 * FP
                     ELSE IF args.length = 3 THEN 60 * FP
                     ELSE 90 * FP
       IN  /\ returned.lengthFactor = factor
           /\ returned.internalStrength =
                 (returned.relatedBondAssociation * returned.bondWeight
                  + factor * (100 * FP - returned.bondWeight)) \div (100 * FP)

\* a call for a successor group of five objects whose bond category is fully
\* active, and the factor is 90
C11_Witness ==
    /\ args.function = "updateInternalStrength"
    /\ ~args.pending
    /\ args.groupCategory = "successorGroup"
    /\ args.length = 5
    /\ fully_active(args.activation)
    /\ returned.relatedBondAssociation = 76 * FP
    /\ returned.lengthFactor = 90 * FP

\* C12: a concept mapping whose initial and target descriptors are the same
\* node has slippability 100 and strength 100, whatever the node, its
\* conceptual depth and the activations.
C12_IdenticalDescriptorsGive100 ==
    /\ args.function \in {"slippability", "strength"}
    /\ ~args.pending
    /\ args.initialDescriptor = args.targetDescriptor
    => returned = 100 * FP

\* slippability was called for a node of depth 90 or more with itself, and
\* strength for a node of depth 10 with itself
C12_Witness ==
    /\ args.function \in {"slippability", "strength"}
    /\ ~args.pending
    /\ args.initialDescriptor = args.targetDescriptor
    /\ returned = 100 * FP
    /\ \/ /\ args.function = "slippability"
          /\ conceptual_depth[args.initialDescriptor] >= 90
          /\ fully_active(args.activation)
       \/ /\ args.function = "strength"
          /\ conceptual_depth[args.initialDescriptor] = 10
          /\ args.activation = 0

\* C13: symmetricVersion returns the mapping it was called on, the same
\* object with nothing changed and no mapping constructed, whenever the
\* label of the mapping is the sameness node or the identity node.
C13_SymmetricVersionOfSamenessIsSelf ==
    /\ args.function = "symmetricVersion"
    /\ ~args.pending
    /\ args.self.label \in {"sameness", "identity"}
    => /\ returned.id = args.self.id
       /\ returned = args.self

\* symmetricVersion was called on a mapping between a node and itself, whose
\* label is the identity node, and returned that mapping
C13_Witness ==
    /\ args.function = "symmetricVersion"
    /\ ~args.pending
    /\ args.self.label = "identity"
    /\ args.self.initialDescriptor = args.self.targetDescriptor
    /\ returned.id = args.self.id

\* C14: for every link the Slipnet constructor creates, the category links
\* whose fixed length is the depth difference of their two nodes included,
\* and for every activation of its label node, Sliplink.degree_of_association
\* lies in [0, 100].
C14_LinkDegreeOfAssociationInRange ==
    args.function = "degree_of_association" /\ ~args.pending =>
       returned >= 0 /\ returned <= 100 * FP

\* the call for a category link that __add_instance_link made between two
\* nodes of different depths: 100 minus the depth difference
C14_Witness ==
    /\ args.function = "degree_of_association"
    /\ ~args.pending
    /\ args.link.kind = "category"
    /\ args.link.fixed_length =
          conceptual_depth[args.link.destination] - conceptual_depth[args.link.source]
    /\ args.link.fixed_length > 0
    /\ returned = (100 - args.link.fixed_length) * FP
    /\ returned < 100 * FP

\* C15: weighted_choice returns None and raises nothing for an empty
\* sequence; for a sequence that is not empty and whose weights are all 0,
\* a single candidate with weight 0 included, it returns the first element
\* and raises nothing, whatever the random source draws.
C15_WeightedChoiceDegenerateCases ==
    args.function = "weighted_choice" /\ ~args.pending =>
       /\ args.seq = << >> => returned = [raised |-> None, value |-> None]
       /\ /\ args.seq # << >>
          /\ \A i \in 1..Len(args.weights) : args.weights[i] = 0
          => returned = [raised |-> None, value |-> args.seq[1]]

\* a call with two or more candidates, all of weight 0, and the largest draw
\* of the random source: the first candidate is returned
C15_Witness ==
    /\ args.function = "weighted_choice"
    /\ ~args.pending
    /\ Len(args.seq) >= 2
    /\ \A i \in 1..Len(args.weights) : args.weights[i] = 0
    /\ args.random = RandomSteps - 1
    /\ returned.raised = None
    /\ returned.value = "first"

\* C16: weighted_average returns 0 for an empty collection and for a
\* collection whose weights sum to 0, and otherwise the quotient of the sum
\* of value * weight by the sum of the weights (to the precision of the
\* fixed-point values); for the values 10 and 20 with weight 1 each it
\* returns 15.
C16_WeightedAverage ==
    args.function = "weighted_average" /\ ~args.pending =>
       LET values == args.values
           products == SumUpTo([i \in 1..Len(values) |-> values[i][1] * values[i][2]],
                               Len(values))
           weights == SumUpTo([i \in 1..Len(values) |-> values[i][2]], Len(values))
       IN  /\ values = << >> => returned = 0
           /\ weights = 0 => returned = 0
           /\ weights > 0 => /\ returned * weights <= products
                             /\ products < (returned + 1) * weights
           /\ weights < 0 => /\ returned * weights >= products
                             /\ products > (returned + 1) * weights
           /\ values = << << 10 * FP, 1 >>, << 20 * FP, 1 >> >> => returned = 15 * FP

\* the call for the values 10 and 20 with weight 1 each returned 15
C16_Witness ==
    /\ args.function = "weighted_average"
    /\ ~args.pending
    /\ args.values = << << 10 * FP, 1 >>, << 20 * FP, 1 >> >>
    /\ returned = 15 * FP

\* C24: for weights that are not negative and not all 0, weighted_choice
\* never returns an element whose weight is 0, whatever the random source
\* draws in [0, 1), 0 included, and the index it takes is within the
\* sequence (nothing is raised).
C24_ZeroWeightNeverChosen ==
    /\ args.function = "weighted_choice"
    /\ ~args.pending
    /\ \E i \in 1..Len(args.weights) : args.weights[i] > 0
    => /\ returned.raised = None
       /\ \E i \in 1..Len(args.seq) :
             args.seq[i] = returned.value /\ args.weights[i] > 0

\* C26: a group of 6 or more objects never receives a length description,
\* whatever the coin, the temperature adjustment and the activation of the
\* length node; a group of k < 6 objects receives at most one length
\* description and its descriptor is then the number node of k; when the
\* adjusted probability is below 0.06 no length description is added.
C26_LengthDescriptionOnlyForSmallGroups ==
    (args.function = "add_length_description_category" /\ ~args.pending) =>
        /\ args.length >= 6 => returned = << >>
        /\ args.length < 6 =>
              \/ returned = << >>
              \/ returned = << Description("length", numbers[args.length]) >>
        /\ args.adjusted < 6 * FP => returned = << >>

\* a group of five objects that received its length description, the
\* adjusted probability being the least that is not floored
C26_Witness ==
    /\ args.function = "add_length_description_category"
    /\ ~args.pending
    /\ args.length = 5
    /\ args.adjusted = 6 * FP
    /\ returned = << Description("length", "5") >>

\* the pairs of a node and a node it has a link to
LinkedNodes ==
    {<< sliplinks[i].source, sliplinks[i].destination >> : i \in 1..Len(sliplinks)}

\* C22: m1.incompatible(m2) is true exactly when the mappings are related
\* (the initial descriptor of m1 is, or has a link to, the initial descriptor
\* of m2, or likewise for the target descriptors), both have a label and the
\* labels differ; a mapping with no label is incompatible with no mapping.
C22_IncompatibleIsRelatedWithDifferentLabels ==
    args.function = "incompatible" /\ ~args.pending =>
       /\ returned =
             (/\ \/ args.self.initialDescriptor = args.other.initialDescriptor
                 \/ args.self.targetDescriptor = args.other.targetDescriptor
                 \/ {<< args.self.initialDescriptor, args.other.initialDescriptor >>,
                     << args.self.targetDescriptor, args.other.targetDescriptor >>}
                    \cap LinkedNodes # {}
              /\ args.self.label # None
              /\ args.other.label # None
              /\ args.self.label # args.other.label)
       /\ args.self.label = None \/ args.other.label = None => returned = FALSE

\* incompatible was called on two related mappings with different labels,
\* whose descriptors are related over a link and not by being equal, and
\* returned true
C22_Witness ==
    /\ args.function = "incompatible"
    /\ ~args.pending
    /\ args.self.initialDescriptor # args.other.initialDescriptor
    /\ args.self.targetDescriptor # args.other.targetDescriptor
    /\ args.self.label = "opposite"
    /\ args.other.label = "identity"
    /\ returned = TRUE

\* C23: support is mutual: m1.supports(m2) holds if and only if
\* m2.supports(m1) holds.
C23_SupportsIsMutual ==
    args.function = "supports" /\ ~args.pending =>
       returned = supports(args.other, args.self)

\* C29: m1.supports(m2) and m1.incompatible(m2) are never both true, and
\* two mappings with the same descriptors support each other and are not
\* incompatible.
C29_SupportsExcludesIncompatible ==
    args.function = "supports" /\ ~args.pending =>
       \E incompatible_too \in {incompatible(args.self, args.other)} :
          /\ ~(returned /\ incompatible_too)
          /\ /\ args.self.initialDescriptor = args.other.initialDescriptor
             /\ args.self.targetDescriptor = args.other.targetDescriptor
             => returned /\ ~incompatible_too

\* supports was called on two related mappings with the same label and
\* different descriptors and returned true, and incompatible is false of them
C29_Witness ==
    /\ args.function = "supports"
    /\ ~args.pending
    /\ args.self.initialDescriptor # args.other.initialDescriptor
    /\ args.self.label = args.other.label
    /\ args.self.label # None
    /\ returned = TRUE
    /\ ~incompatible(args.self, args.other)

====
